---- MODULE Spec2Model ----
(***************************************************************************)
(* broker-cli: the OSB protocol adapter (package adapter), the             *)
(* last-operation poller waitOnOperation and the commands of package cmd   *)
(* that drive them (instances, bindings, brokers, catalog), and the        *)
(* resolution of the broker URL from the flags (package flags), which has  *)
(* a specification of its own, SpecBrokerURL.                              *)
(*                                                                         *)
(* One run of the model is one run of the CLI: Init draws the command line *)
(* (and, for cleanup, the broker's listing), every HTTP exchange is one    *)
(* step whose transport outcome is drawn with \E.  Durations are in        *)
(* milliseconds.                                                           *)
(*                                                                         *)
(* Further specifications over the same variables: SpecConcurrent (callers *)
(* sharing one httpAdapter), SpecPoller (waitOnOperation alone, with       *)
(* fairness) and SpecSecrets (catalog-oauth: writeSecret).                 *)
(***************************************************************************)
EXTENDS Integers, Sequences, FiniteSets, TLC

-----------------------------------------------------------------------------
(* Bounds of the model *)

\* polls after which the broker must stop answering "in progress" (CLI run)
MaxPolls == 8
\* the same cap for each deletion of a cleanup run
MaxCleanupPolls == 2
\* instances in the listing handed to cleanupBroker
MaxInstances == 2
\* bindings per listed instance
MaxBindings == 2

-----------------------------------------------------------------------------
(* Program constants *)

StatusOK == 200
StatusCreated == 201
StatusAccepted == 202
StatusMultipleChoices == 300
StatusBadRequest == 400
StatusConflict == 409
StatusGone == 410
StatusUnprocessableEntity == 422

OperationCreate == 0
OperationUpdate == 1
OperationDelete == 2
OperationUnknown == 3

OperationSucceeded == "succeeded"
OperationFailed == "failed"
OperationInProgress == "in progress"

acceptsIncompleteKey == "accepts_incomplete"
serviceIDKey == "service_id"
planIDKey == "plan_id"
operationKey == "operation"
instanceKey == "instance"
bindingKey == "binding"

\* waitOnOperation's baseDelay and maxDelay, in milliseconds
baseDelay == 100
maxDelay == 6000

ApiVersionDefault == "ApiVersionDefault"
userCancelledBrokerCleanup == "Stopped broker cleanup as per user request"

-----------------------------------------------------------------------------
(* Response bodies, as encoding/json sees them.                            *)
(* syntax: "invalid" (not JSON, the empty body included), "null", "array"  *)
(* (valid JSON that is no object) or "object".  A field of an object is    *)
(* Absent, BadType (present with a JSON type the Go field cannot take) or  *)
(* its string value.                                                       *)

Absent == "<absent>"
BadType == "<badtype>"

Body(syntax, operation, dashboard, state, description, error) ==
    [syntax |-> syntax, operation |-> operation, dashboard_url |-> dashboard,
     state |-> state, description |-> description, error |-> error]

NilBody == Body("nil", Absent, Absent, Absent, Absent, Absent)
NotJSON == Body("invalid", Absent, Absent, Absent, Absent, Absent)
EmptyObject == Body("object", Absent, Absent, Absent, Absent, Absent)
OpObject == Body("object", "op-1", "https://dashboard", Absent, Absent, Absent)
OpBadType == Body("object", BadType, Absent, Absent, Absent, Absent)
StateObject(s) == Body("object", Absent, Absent, s, "desc", Absent)
GCPError == Body("object", Absent, Absent, Absent, Absent, "envelope")

AllCodes ==
    {StatusOK, StatusCreated, StatusAccepted, 204, StatusBadRequest,
     StatusConflict, StatusGone, StatusUnprocessableEntity, 500}

\* What the transport (DoClient.Do followed by ioutil.ReadAll) can produce.
Response(code, body) == [kind |-> "resp", code |-> code, body |-> body]
DoError == [kind |-> "doErr", code |-> 0, body |-> NilBody]

\* The bodies: no JSON, JSON null, a JSON array, objects with an operation,
\* a state or an error envelope, each also with a member of the wrong type.
\* kind "readErr": ioutil.ReadAll failed.
AllTransport ==
    {Response(c, b) :
        c \in AllCodes,
        b \in {NotJSON, EmptyObject, OpObject, OpBadType, GCPError,
               Body("null", Absent, Absent, Absent, Absent, Absent),
               Body("array", Absent, Absent, Absent, Absent, Absent),
               Body("object", Absent, Absent, BadType, Absent, Absent),
               Body("object", Absent, Absent, Absent, Absent, BadType)}
              \cup {StateObject(s) : s \in {OperationInProgress, OperationSucceeded,
                                            OperationFailed}}}
        \cup {DoError, [kind |-> "readErr", code |-> 0, body |-> NilBody]}

\* json.Unmarshal(body, &target) for a struct target with the given fields:
\* it fails on text that is not JSON, on JSON that is no object (null is
\* accepted and leaves the target untouched) and on a field of the wrong type.
UnmarshalOK(body, fields) ==
    /\ body.syntax \in {"null", "object"}
    /\ \A f \in fields : body[f] # BadType

\* the value a string field of the target holds after a successful Unmarshal
FieldOf(body, f) == IF body[f] = Absent THEN "" ELSE body[f]

-----------------------------------------------------------------------------
(* Values returned by the adapter *)

Nil == [nil |-> TRUE]
NoErr == [type |-> "nil"]

\* fmt.Errorf: the message's fixed text and the body it quotes
Errorf(text, body) == [type |-> "error", text |-> text, body |-> body]

BrokerError(code, desc, body) ==
    [type |-> "BrokerError", StatusCode |-> code, ErrorDescription |-> desc,
     ErrorBody |-> body]

Out(res, err) == [res |-> res, err |-> err]

validateGCPFailureResponse_secondaryError(body, code, desc) ==
    IF ~UnmarshalOK(body, {"error"})
    THEN Errorf("error unmarshalling failure response body", body)
    ELSE BrokerError(code, desc, body)

validateGCPFailureResponse_oneDescription(body, code, desc) ==
    IF ~UnmarshalOK(body, {"error"})
    THEN BrokerError(code, "error unmarshalling failure response body", body)
    ELSE BrokerError(code, "request was not successful", body)

validateGCPFailureResponse(body, code, desc) ==
    IF ~UnmarshalOK(body, {"error"})
    THEN BrokerError(code, "error unmarshalling failure response body", body)
    ELSE BrokerError(code, desc, body)

\* strconv.FormatBool
FormatBool(b) == IF b THEN "true" ELSE "false"

\* url.Values after the Set calls: only the keys that were set
Values(pairs) == [k \in {p[1] : p \in pairs} |-> (CHOOSE p \in pairs : p[1] = k)[2]]

\* the *http.Request handed to the transport: method, URL path segments,
\* the X-Broker-API-Version header, the query string and the JSON body
Request_defaultVersion(method, url, apiVersion, query, reqBody) ==
    [method |-> method, url |-> url, apiVersion |-> ApiVersionDefault,
     query |-> query, reqBody |-> reqBody]

Request(method, url, apiVersion, query, reqBody) ==
    [method |-> method, url |-> url, apiVersion |-> apiVersion, query |-> query,
     reqBody |-> reqBody]

\* A raw URL that url.Parse rejects (an invalid escape in the host), so
\* that http.NewRequest fails, and the --host value it is built from
BadHost == "https://host%zz"
BadURL == "https://host%zz/v1beta1/projects/p/brokers/b"

\* http.NewRequest(method, url, body) succeeds; the methods are constants of
\* net/http and every request body is a struct that json.Marshal accepts
NewRequestOK(req) == req.url[1] \notin {BadHost, BadURL}

\* the transport outcome of a call whose request was never sent
NotInvoked == [kind |-> "none", code |-> 0, body |-> NilBody]

\* the requests a call hands to DoClient.Do, in order
Sent_retry(req, tr) ==
    IF ~NewRequestOK(req) THEN <<>>
    ELSE IF tr.kind = "doErr" THEN <<req, req>>
    ELSE <<req>>

Sent(req, tr) == IF NewRequestOK(req) THEN <<req>> ELSE <<>>

doOSBRequest(req, tr) ==
    CASE ~NewRequestOK(req) ->
            [statusCode |-> 0, body |-> NilBody,
             err |-> Errorf("error creating request", NilBody)]
      [] tr.kind = "doErr" ->
            [statusCode |-> 0, body |-> NilBody,
             err |-> Errorf("error executing request", NilBody)]
      [] tr.kind = "readErr" ->
            [statusCode |-> 0, body |-> NilBody,
             err |-> Errorf("error reading response body", NilBody)]
      [] OTHER ->
            [statusCode |-> tr.code, body |-> tr.body, err |-> NoErr]

-----------------------------------------------------------------------------
(* doRequest and the admin calls of httpAdapter that use it.  The target   *)
(* structs of these calls have none of the fields of Body, so decoding     *)
(* fails only on text that is no JSON object.                              *)

\* a request of doRequest: no query and no X-Broker-API-Version header
AdminRequest(method, url, reqBody) ==
    Request(method, url, Absent, Values({}), reqBody)

\* decode: v # nil
doRequest_decodeAnything(req, tr, decode) ==
    CASE ~NewRequestOK(req) -> Errorf("error creating request", NilBody)
      [] tr.kind = "doErr" -> Errorf("error executing request", NilBody)
      [] tr.kind = "readErr" -> Errorf("error reading response body", NilBody)
      [] tr.code >= StatusMultipleChoices \/ tr.code < StatusOK ->
            Errorf("request was not successful", tr.body)
      [] OTHER -> NoErr

doRequest_anyStatus(req, tr, decode) ==
    CASE ~NewRequestOK(req) -> Errorf("error creating request", NilBody)
      [] tr.kind = "doErr" -> Errorf("error executing request", NilBody)
      [] tr.kind = "readErr" -> Errorf("error reading response body", NilBody)
      [] decode /\ ~UnmarshalOK(tr.body, {}) ->
            Errorf("error unmarshalling response body into v", tr.body)
      [] OTHER -> NoErr

doRequest(req, tr, decode) ==
    CASE ~NewRequestOK(req) -> Errorf("error creating request", NilBody)
      [] tr.kind = "doErr" -> Errorf("error executing request", NilBody)
      [] tr.kind = "readErr" -> Errorf("error reading response body", NilBody)
      [] tr.code >= StatusMultipleChoices \/ tr.code < StatusOK ->
            Errorf("request was not successful", tr.body)
      [] decode /\ ~UnmarshalOK(tr.body, {}) ->
            Errorf("error unmarshalling response body into v", tr.body)
      [] OTHER -> NoErr

\* the struct a call decodes into, and whether the body was decoded into it
\* Instances: len(lir.Instances) after decoding body
Decoded(err, body) ==
    [decoded |-> err = NoErr,
     Instances |-> IF err = NoErr /\ "instances" \in DOMAIN body
                   THEN body.instances ELSE 0]

\* osb.Broker.  Name is the sequence of the segments of its path, <<>> the
\* empty string; URL and CreateTime are *string, NilPtr the nil pointer.
NilPtr == "<nil>"
Broker(name, title, url, createTime) ==
    [Name |-> name, Title |-> title, URL |-> url, CreateTime |-> createTime]

\* json.Marshal(broker): the members of the JSON object.  title and url are
\* omitempty (an empty string and a nil pointer are left out); a nil
\* CreateTime is written as null.
MarshalBroker(b) ==
    [k \in {"name", "createTime"}
              \cup (IF b.Title = "" THEN {} ELSE {"title"})
              \cup (IF b.URL = NilPtr THEN {} ELSE {"url"}) |->
        CASE k = "name" -> b.Name
          [] k = "title" -> b.Title
          [] k = "url" -> b.URL
          [] OTHER -> IF b.CreateTime = NilPtr THEN "<null>" ELSE b.CreateTime]

\* json.Unmarshal(text, &osb.Broker{}): a member that is missing or null
\* leaves the field at its zero value
UnmarshalBroker(obj) ==
    Broker(IF "name" \in DOMAIN obj THEN obj.name ELSE <<>>,
           IF "title" \in DOMAIN obj THEN obj.title ELSE "",
           IF "url" \in DOMAIN obj /\ obj.url # "<null>" THEN obj.url ELSE NilPtr,
           IF "createTime" \in DOMAIN obj /\ obj.createTime # "<null>"
           THEN obj.createTime ELSE NilPtr)

\* a response body that is the JSON object obj
BrokerBody(obj) ==
    [syntax |-> "object", operation |-> Absent, dashboard_url |-> Absent,
     state |-> Absent, description |-> Absent, error |-> Absent, broker |-> obj]

CreateBrokerRequest_titleFromName(params) ==
    AdminRequest("POST", <<params.Host, "v1beta1", "projects", params.Project, "brokers">>,
                 MarshalBroker(Broker(<<"projects", params.Project, "brokers", params.Name>>,
                                      params.Name, NilPtr, NilPtr)))

CreateBrokerRequest(params) ==
    AdminRequest("POST", <<params.Host, "v1beta1", "projects", params.Project, "brokers">>,
                 MarshalBroker(Broker(<<"projects", params.Project, "brokers", params.Name>>,
                                      params.Title, NilPtr, NilPtr)))

\* ret is returned together with err; it stays &osb.Broker{} unless the body
\* was decoded into it
CreateBroker(params, tr) ==
    LET err == doRequest(CreateBrokerRequest(params), tr, TRUE)
    IN  Out(IF err = NoErr /\ "broker" \in DOMAIN tr.body
            THEN UnmarshalBroker(tr.body.broker)
            ELSE Broker(<<>>, "", NilPtr, NilPtr),
            err)

DeleteBrokerRequest(params) == AdminRequest("DELETE", <<params.BrokerURL>>, Nil)

DeleteBroker(params, tr) ==
    Out(Nil, doRequest(DeleteBrokerRequest(params), tr, FALSE))

ListBrokersRequest(params) ==
    AdminRequest("GET", <<params.Host, "v1beta1", "projects", params.Project, "brokers">>, Nil)

ListBrokers(params, tr) ==
    LET err == doRequest(ListBrokersRequest(params), tr, TRUE)
    IN  Out(Decoded(err, tr.body), err)

GetCatalogRequest(params) ==
    Request("GET", <<params.Server, "v2", "catalog">>, params.APIVersion, Values({}), Nil)

GetCatalog(params, tr) ==
    LET r == doOSBRequest(GetCatalogRequest(params), tr)
    IN  IF r.err # NoErr THEN Out(Nil, r.err)
        ELSE IF r.statusCode # StatusOK
        THEN Out(Nil, validateGCPFailureResponse(r.body, r.statusCode,
                          "error fetching catalog"))
        ELSE IF ~UnmarshalOK(r.body, {})
        THEN Out(Nil, Errorf("error unmarshalling response body", r.body))
        ELSE Out(Decoded(NoErr, r.body), NoErr)

ListInstancesRequest(params) == AdminRequest("GET", <<params.Server, "instances">>, Nil)

ListInstances(params, tr) ==
    LET err == doRequest(ListInstancesRequest(params), tr, TRUE)
    IN  IF err # NoErr THEN Out(Nil, err) ELSE Out(Decoded(NoErr, tr.body), NoErr)

ListBindingsRequest(params) ==
    AdminRequest("GET", <<params.Server, "instances", params.InstanceID, "bindings">>, Nil)

ListBindings(params, tr) ==
    LET err == doRequest(ListBindingsRequest(params), tr, TRUE)
    IN  IF err # NoErr THEN Out(Nil, err) ELSE Out(Decoded(NoErr, tr.body), NoErr)

-----------------------------------------------------------------------------
(* The OSB calls of httpAdapter.  Each is split into the request it builds *)
(* and the interpretation of the transport's outcome tr.                   *)

CreateInstanceRequest(params) ==
    Request("PUT", <<params.Server, "v2", "service_instances", params.InstanceID>>,
            params.APIVersion,
            Values({<<acceptsIncompleteKey, FormatBool(params.AcceptsIncomplete)>>}),
            [service_id |-> params.ServiceID, plan_id |-> params.PlanID])

\* mutant: 201 is not a success of CreateInstance
CreateInstanceSyncCodes_noCreated == {StatusOK}

\* case http.StatusOK, http.StatusCreated:
CreateInstanceSyncCodes == {StatusOK, StatusCreated}

CreateInstance(params, tr) ==
    LET r == doOSBRequest(CreateInstanceRequest(params), tr)
        unmarshalSuccessResponse(body, isAsync) ==
            IF ~UnmarshalOK(body, {"dashboard_url", "operation"})
            THEN Out(Nil, Errorf("error unmarshalling response body", body))
            ELSE Out([Async |-> isAsync,
                      DashboardURL |-> FieldOf(body, "dashboard_url"),
                      OperationID |-> FieldOf(body, "operation")], NoErr)
    IN  IF r.err # NoErr THEN Out(Nil, r.err)
        ELSE CASE r.statusCode \in CreateInstanceSyncCodes ->
                    unmarshalSuccessResponse(r.body, FALSE)
               [] r.statusCode = StatusAccepted ->
                    IF ~params.AcceptsIncomplete
                    THEN Out(Nil, Errorf("request shouldn't be handled asynchronously", r.body))
                    ELSE unmarshalSuccessResponse(r.body, TRUE)
               [] r.statusCode = StatusBadRequest ->
                    Out(Nil, validateGCPFailureResponse(r.body, r.statusCode,
                        "request was malformed or missing mandatory data"))
               [] r.statusCode = StatusConflict ->
                    Out(Nil, validateGCPFailureResponse(r.body, r.statusCode,
                        "instance with the same id but different attributes already exists"))
               [] r.statusCode = StatusUnprocessableEntity ->
                    Out(Nil, validateGCPFailureResponse(r.body, r.statusCode,
                        "the broker only supports asynchronous requests"))
               [] OTHER ->
                    Out(Nil, validateGCPFailureResponse(r.body, r.statusCode,
                        "request was not successful"))

DeleteInstanceRequest(params) ==
    Request("DELETE", <<params.Server, "v2", "service_instances", params.InstanceID>>,
            params.APIVersion,
            Values({<<serviceIDKey, params.ServiceID>>, <<planIDKey, params.PlanID>>,
                    <<acceptsIncompleteKey, FormatBool(params.AcceptsIncomplete)>>}),
            Nil)

\* case http.StatusOK, http.StatusGone:
DeleteInstanceSyncCodes == {StatusOK, StatusGone}

DeleteInstance(params, tr) ==
    LET r == doOSBRequest(DeleteInstanceRequest(params), tr)
    IN  IF r.err # NoErr THEN Out(Nil, r.err)
        ELSE CASE r.statusCode \in DeleteInstanceSyncCodes ->
                    Out([Async |-> FALSE, OperationID |-> ""], NoErr)
               [] r.statusCode = StatusAccepted ->
                    IF ~params.AcceptsIncomplete
                    THEN Out(Nil, Errorf("request shouldn't be handled asynchronously", r.body))
                    ELSE IF ~UnmarshalOK(r.body, {"operation"})
                    THEN Out(Nil, Errorf("error unmarshalling response body", r.body))
                    ELSE Out([Async |-> TRUE, OperationID |-> FieldOf(r.body, "operation")],
                             NoErr)
               [] r.statusCode = StatusBadRequest ->
                    Out(Nil, validateGCPFailureResponse(r.body, r.statusCode,
                        "request was malformed or missing mandatory data"))
               [] r.statusCode = StatusUnprocessableEntity ->
                    Out(Nil, validateGCPFailureResponse(r.body, r.statusCode,
                        "the broker only supports asynchronous requests"))
               [] OTHER ->
                    Out(Nil, validateGCPFailureResponse(r.body, r.statusCode,
                        "request was not successful"))

UpdateInstanceRequest(params) ==
    Request("PATCH", <<params.Server, "v2", "service_instances", params.InstanceID>>,
            params.APIVersion,
            Values({<<acceptsIncompleteKey, FormatBool(params.AcceptsIncomplete)>>}),
            [service_id |-> params.ServiceID, plan_id |-> params.PlanID])

\* mutant: a 202 is taken as asynchronous whatever AcceptsIncomplete is
UpdateInstance_always202(params, tr) ==
    LET r == doOSBRequest(UpdateInstanceRequest(params), tr)
        unmarshalSuccessResponse(body, isAsync) ==
            IF ~UnmarshalOK(body, {"operation"})
            THEN Out(Nil, Errorf("error unmarshalling response body", body))
            ELSE Out([Async |-> isAsync, OperationID |-> FieldOf(body, "operation")],
                     NoErr)
    IN  IF r.err # NoErr THEN Out(Nil, r.err)
        ELSE CASE r.statusCode = StatusOK ->
                    unmarshalSuccessResponse(r.body, FALSE)
               [] r.statusCode = StatusAccepted ->
                    unmarshalSuccessResponse(r.body, TRUE)
               [] r.statusCode = StatusBadRequest ->
                    Out(Nil, validateGCPFailureResponse(r.body, r.statusCode,
                        "request was malformed or missing mandatory data"))
               [] r.statusCode = StatusUnprocessableEntity ->
                    Out(Nil, validateGCPFailureResponse(r.body, r.statusCode,
                        "the broker only supports asynchronous requests"))
               [] OTHER ->
                    Out(Nil, validateGCPFailureResponse(r.body, r.statusCode,
                        "request was not successful"))

UpdateInstance(params, tr) ==
    LET r == doOSBRequest(UpdateInstanceRequest(params), tr)
        unmarshalSuccessResponse(body, isAsync) ==
            IF ~UnmarshalOK(body, {"operation"})
            THEN Out(Nil, Errorf("error unmarshalling response body", body))
            ELSE Out([Async |-> isAsync, OperationID |-> FieldOf(body, "operation")],
                     NoErr)
    IN  IF r.err # NoErr THEN Out(Nil, r.err)
        ELSE CASE r.statusCode = StatusOK ->
                    unmarshalSuccessResponse(r.body, FALSE)
               [] r.statusCode = StatusAccepted ->
                    IF ~params.AcceptsIncomplete
                    THEN Out(Nil, Errorf("request shouldn't be handled asynchronously", r.body))
                    ELSE unmarshalSuccessResponse(r.body, TRUE)
               [] r.statusCode = StatusBadRequest ->
                    Out(Nil, validateGCPFailureResponse(r.body, r.statusCode,
                        "request was malformed or missing mandatory data"))
               [] r.statusCode = StatusUnprocessableEntity ->
                    Out(Nil, validateGCPFailureResponse(r.body, r.statusCode,
                        "the broker only supports asynchronous requests"))
               [] OTHER ->
                    Out(Nil, validateGCPFailureResponse(r.body, r.statusCode,
                        "request was not successful"))

CreateBindingRequest(params) ==
    Request("PUT", <<params.Server, "v2", "service_instances", params.InstanceID,
                     "service_bindings", params.BindingID>>,
            params.APIVersion,
            Values({<<acceptsIncompleteKey, FormatBool(params.AcceptsIncomplete)>>}),
            [service_id |-> params.ServiceID, plan_id |-> params.PlanID])

\* case http.StatusOK, http.StatusCreated:
CreateBindingSyncCodes == {StatusOK, StatusCreated}

\* Credentials, SyslogDrainURL, RouteServiceURL and VolumeMounts are copied
\* from the decoded body like OperationID and are not carried by the model.
CreateBinding(params, tr) ==
    LET r == doOSBRequest(CreateBindingRequest(params), tr)
        marshalSuccessResponse(body, isAsync) ==
            IF ~UnmarshalOK(body, {"operation"})
            THEN Out(Nil, Errorf("error unmarshalling response body", body))
            ELSE Out([Async |-> isAsync, OperationID |-> FieldOf(body, "operation")],
                     NoErr)
    IN  IF r.err # NoErr THEN Out(Nil, r.err)
        ELSE CASE r.statusCode \in CreateBindingSyncCodes ->
                    marshalSuccessResponse(r.body, FALSE)
               [] r.statusCode = StatusAccepted ->
                    IF ~params.AcceptsIncomplete
                    THEN Out(Nil, Errorf("request shouldn't be handled asynchronously", r.body))
                    ELSE marshalSuccessResponse(r.body, TRUE)
               [] r.statusCode = StatusBadRequest ->
                    Out(Nil, validateGCPFailureResponse(r.body, r.statusCode,
                        "request was malformed or missing mandatory data"))
               [] r.statusCode = StatusConflict ->
                    Out(Nil, validateGCPFailureResponse(r.body, r.statusCode,
                        "binding with the same id but different attributes already exists"))
               [] r.statusCode = StatusUnprocessableEntity ->
                    Out(Nil, validateGCPFailureResponse(r.body, r.statusCode,
                        "the broker only supports asynchronous requests"))
               [] OTHER ->
                    Out(Nil, validateGCPFailureResponse(r.body, r.statusCode,
                        "request was not successful"))

DeleteBindingRequest(params) ==
    Request("DELETE", <<params.Server, "v2", "service_instances", params.InstanceID,
                        "service_bindings", params.BindingID>>,
            params.APIVersion,
            Values({<<serviceIDKey, params.ServiceID>>, <<planIDKey, params.PlanID>>,
                    <<acceptsIncompleteKey, FormatBool(params.AcceptsIncomplete)>>}),
            Nil)

\* mutant: 410 is not a success of DeleteBinding
DeleteBindingSyncCodes_noGone == {StatusOK}

\* case http.StatusOK, http.StatusGone:
DeleteBindingSyncCodes == {StatusOK, StatusGone}

DeleteBinding(params, tr) ==
    LET r == doOSBRequest(DeleteBindingRequest(params), tr)
    IN  IF r.err # NoErr THEN Out(Nil, r.err)
        ELSE CASE r.statusCode \in DeleteBindingSyncCodes ->
                    Out([Async |-> FALSE, OperationID |-> ""], NoErr)
               [] r.statusCode = StatusAccepted ->
                    IF ~params.AcceptsIncomplete
                    THEN Out(Nil, Errorf("request shouldn't be handled asynchronously", r.body))
                    ELSE IF ~UnmarshalOK(r.body, {"operation"})
                    THEN Out(Nil, Errorf("error unmarshalling response body", r.body))
                    ELSE Out([Async |-> TRUE, OperationID |-> FieldOf(r.body, "operation")],
                             NoErr)
               [] r.statusCode = StatusBadRequest ->
                    Out(Nil, validateGCPFailureResponse(r.body, r.statusCode,
                        "request was malformed or missing mandatory data"))
               [] r.statusCode = StatusUnprocessableEntity ->
                    Out(Nil, validateGCPFailureResponse(r.body, r.statusCode,
                        "the broker only supports asynchronous requests"))
               [] OTHER ->
                    Out(Nil, validateGCPFailureResponse(r.body, r.statusCode,
                        "request was not successful"))

\* lastOperation sets a query key only when its value is not empty
lastOperationRequest(operationURL, params) ==
    Request("GET", operationURL, params.APIVersion,
            Values({p \in {<<serviceIDKey, params.ServiceID>>,
                           <<planIDKey, params.PlanID>>,
                           <<operationKey, params.OperationID>>} : p[2] # ""}),
            Nil)

\* mutant: a poll of unknown type also takes 410 for a finished delete
GoneMeansDeleted_orUnknown(params) ==
    params.OperationType \in {OperationDelete, OperationUnknown}

\* if params.OperationType == OperationDelete (under case http.StatusGone)
GoneMeansDeleted(params) == params.OperationType = OperationDelete

lastOperation(resource, operationURL, params, tr) ==
    LET r == doOSBRequest(lastOperationRequest(operationURL, params), tr)
    IN  IF r.err # NoErr THEN Out(Nil, r.err)
        ELSE CASE r.statusCode = StatusOK ->
                    IF ~UnmarshalOK(r.body, {"state", "description"})
                    THEN Out(Nil, Errorf("error unmarshalling response body", r.body))
                    ELSE Out([State |-> FieldOf(r.body, "state"),
                              Description |-> FieldOf(r.body, "description")], NoErr)
               [] r.statusCode = StatusBadRequest ->
                    Out(Nil, validateGCPFailureResponse(r.body, r.statusCode,
                        "request was malformed or missing mandatory data"))
               [] r.statusCode = StatusGone ->
                    IF GoneMeansDeleted(params)
                    THEN Out([State |-> OperationSucceeded,
                              Description |->
                                  \* fmt.Sprintf("The %s doesn't exist.", resource)
                                  IF resource = instanceKey
                                  THEN "The instance doesn't exist."
                                  ELSE "The binding doesn't exist."],
                             NoErr)
                    ELSE Out(Nil, validateGCPFailureResponse(r.body, r.statusCode,
                             \* fmt.Sprintf("%s doesn't exist", resource)
                             IF resource = instanceKey THEN "instance doesn't exist"
                             ELSE "binding doesn't exist"))
               [] OTHER ->
                    Out(Nil, validateGCPFailureResponse(r.body, r.statusCode,
                        "request was not successful"))

InstanceLastOperationURL(params) ==
    <<params.Server, "v2", "service_instances", params.InstanceID, "last_operation">>

InstanceLastOperation(params, tr) ==
    lastOperation(instanceKey, InstanceLastOperationURL(params), params, tr)

BindingLastOperationURL(params) ==
    <<params.Server, "v2", "service_instances", params.InstanceID,
      "service_bindings", params.BindingID, "last_operation">>

BindingLastOperation(params, tr) ==
    lastOperation(bindingKey, BindingLastOperationURL(params), params, tr)

-----------------------------------------------------------------------------
(* waitOnOperation *)

NotReturned == [returned |-> FALSE]

Min(a, b) == IF a < b THEN a ELSE b

\* mutant: the loop runs until the operation has failed
LoopCondition_untilFailed(curState) == curState # OperationFailed

\* mutant: the loop runs until the operation has succeeded
LoopCondition_untilSucceeded(curState) == curState # OperationSucceeded

\* the loop condition: for curState == adapter.OperationInProgress
LoopCondition(curState) == curState = OperationInProgress

\* mutant: the delay is doubled only while the double stays within maxDelay
NextDelay_noStep(delay) == IF 2 * delay <= maxDelay THEN 2 * delay ELSE delay

\* if delay < maxDelay { delay = min(maxDelay, 2*delay) }
NextDelay(delay) == IF delay < maxDelay THEN Min(maxDelay, 2 * delay) ELSE delay

\* the poller's locals before the first iteration
waitOnOperationEntry ==
    [curState |-> OperationInProgress, delay |-> baseDelay, ret |-> NotReturned]

\* mutant: a failed query is retried
waitOnOperationIteration_retry(st, out) ==
    IF out.err # NoErr
    THEN st
    ELSE [curState |-> out.res.State,
          delay |-> NextDelay(st.delay),
          ret |-> IF LoopCondition(out.res.State) THEN NotReturned
                  ELSE Out(out.res, NoErr)]

\* One iteration of the loop after time.Sleep(delay), given what
\* pollOperation() returned; ret is set when the function returns.
\* mutant: the loop gives up once the delay has reached maxDelay
waitOnOperationIteration_deadline(st, out) ==
    IF out.err # NoErr
    THEN [st EXCEPT !.ret = Out(Nil, out.err)]
    ELSE [curState |-> out.res.State,
          delay |-> NextDelay(st.delay),
          ret |-> IF LoopCondition(out.res.State) /\ st.delay < maxDelay
                  THEN NotReturned
                  ELSE Out(out.res, NoErr)]

waitOnOperationIteration(st, out) ==
    IF out.err # NoErr
    THEN [st EXCEPT !.ret = Out(Nil, out.err)]
    ELSE [curState |-> out.res.State,
          delay |-> NextDelay(st.delay),
          ret |-> IF LoopCondition(out.res.State) THEN NotReturned
                  ELSE Out(out.res, NoErr)]

\* the closures built by pollInstanceOpFunc and pollBindingOpFunc
pollInstanceOpFunc_noOperationID(apiVersion, brokerURL, instanceID, serviceID, planID, opID, opType) ==
    [resource |-> instanceKey,
     params |-> [Server |-> brokerURL, InstanceID |-> instanceID, BindingID |-> "",
                 APIVersion |-> apiVersion, ServiceID |-> serviceID,
                 PlanID |-> planID, OperationID |-> "", OperationType |-> opType]]

pollInstanceOpFunc(apiVersion, brokerURL, instanceID, serviceID, planID, opID, opType) ==
    [resource |-> instanceKey,
     params |-> [Server |-> brokerURL, InstanceID |-> instanceID, BindingID |-> "",
                 APIVersion |-> apiVersion, ServiceID |-> serviceID,
                 PlanID |-> planID, OperationID |-> opID, OperationType |-> opType]]

pollBindingOpFunc(apiVersion, brokerURL, instanceID, bindingID, serviceID, planID, opID, opType) ==
    [resource |-> bindingKey,
     params |-> [Server |-> brokerURL, InstanceID |-> instanceID,
                 BindingID |-> bindingID,
                 APIVersion |-> apiVersion, ServiceID |-> serviceID,
                 PlanID |-> planID, OperationID |-> opID, OperationType |-> opType]]

\* calling the closure
pollOperation(p, tr) ==
    IF p.resource = instanceKey THEN InstanceLastOperation(p.params, tr)
    ELSE BindingLastOperation(p.params, tr)

pollOperationRequest(p) ==
    IF p.resource = instanceKey
    THEN lastOperationRequest(InstanceLastOperationURL(p.params), p.params)
    ELSE lastOperationRequest(BindingLastOperationURL(p.params), p.params)

pollOperationMethod(p) ==
    IF p.resource = instanceKey THEN "InstanceLastOperation" ELSE "BindingLastOperation"

-----------------------------------------------------------------------------
(* Package flags: BrokerURLConstructor.                                    *)
(* A string of the flags is a sequence of symbols: "/", one of the path    *)
(* keys of the broker URL, or a letter; the empty string is <<>>.          *)

brokersKey == "brokers"
projectsKey == "projects"
betaKey == "v1beta1"

\* strings.HasPrefix
HasPrefix(s, prefix) ==
    /\ Len(prefix) <= Len(s)
    /\ SubSeq(s, 1, Len(prefix)) = prefix

\* strings.Split(s, "/"): one part more than there are "/" in s
RECURSIVE Split(_)
Split(s) ==
    IF \A k \in 1..Len(s) : s[k] # "/"
    THEN <<s>>
    ELSE LET k == CHOOSE j \in 1..Len(s) :
                      s[j] = "/" /\ \A m \in 1..(j - 1) : s[m] # "/"
         IN  <<SubSeq(s, 1, k - 1)>> \o Split(SubSeq(s, k + 1, Len(s)))

\* fmt.Sprintf("%s/v1beta1/projects/%s/brokers/%s", host, project, broker)
ConstructBrokerURL(host, project, broker) ==
    host \o <<"/", betaKey, "/", projectsKey, "/">> \o project
         \o <<"/", brokersKey, "/">> \o broker

BrokerURLConstructor(broker, host, project, server) ==
    [Broker |-> broker, Host |-> host, Project |-> project, Server |-> server]

\* validateServer: the error it returns and the fields it leaves behind.
\* parts is 1-based here: Go's parts[partsLen-k] is parts[partsLen-k+1].
validateServer_swapped(flags) ==
    LET parts == Split(flags.Server)
        partsLen == Len(parts)
    IN  IF ~HasPrefix(flags.Server, flags.Host)
        THEN [flags |-> flags,
              err |-> Errorf("should always begin with service end point", NilBody)]
        ELSE IF \/ partsLen < 8
                \/ parts[partsLen - 1] # <<brokersKey>>
                \/ parts[partsLen - 3] # <<projectsKey>>
                \/ parts[partsLen - 4] # <<betaKey>>
        THEN [flags |-> flags, err |-> Errorf("is invalid", NilBody)]
        ELSE [flags |-> [flags EXCEPT !.Broker = parts[partsLen - 2],
                                      !.Project = parts[partsLen]],
              err |-> NoErr]

validateServer(flags) ==
    LET parts == Split(flags.Server)
        partsLen == Len(parts)
    IN  IF ~HasPrefix(flags.Server, flags.Host)
        THEN [flags |-> flags,
              err |-> Errorf("should always begin with service end point", NilBody)]
        ELSE IF \/ partsLen < 8
                \/ parts[partsLen - 1] # <<brokersKey>>
                \/ parts[partsLen - 3] # <<projectsKey>>
                \/ parts[partsLen - 4] # <<betaKey>>
        THEN [flags |-> flags, err |-> Errorf("is invalid", NilBody)]
        ELSE [flags |-> [flags EXCEPT !.Broker = parts[partsLen],
                                      !.Project = parts[partsLen - 2]],
              err |-> NoErr]

\* what BrokerURL returns, and the fields of the constructor afterwards
BrokerURLResult(flags, url, err) == [flags |-> flags, url |-> url, err |-> err]

BrokerURL_serverWins(flags) ==
    IF flags.Server = <<>> /\ (flags.Project = <<>> \/ flags.Broker = <<>>)
    THEN BrokerURLResult(flags, <<>>, Errorf("must be specified", NilBody))
    ELSE IF flags.Server # <<>>
    THEN LET v == validateServer(flags)
         IN  IF v.err # NoErr
             THEN BrokerURLResult(v.flags, <<>>, v.err)
             ELSE BrokerURLResult(v.flags, v.flags.Server, NoErr)
    ELSE BrokerURLResult(flags,
             ConstructBrokerURL(flags.Host, flags.Project, flags.Broker), NoErr)

BrokerURL(flags) ==
    IF flags.Server = <<>> /\ (flags.Project = <<>> \/ flags.Broker = <<>>)
    THEN BrokerURLResult(flags, <<>>, Errorf("must be specified", NilBody))
    ELSE IF flags.Server # <<>> /\ flags.Project # <<>> /\ flags.Broker # <<>>
    THEN BrokerURLResult(flags, <<>>,
             Errorf("needs to be specified, not both", NilBody))
    ELSE IF flags.Server # <<>>
    THEN LET v == validateServer(flags)
         IN  IF v.err # NoErr
             THEN BrokerURLResult(v.flags, <<>>, v.err)
             ELSE BrokerURLResult(v.flags, v.flags.Server, NoErr)
    ELSE BrokerURLResult(flags,
             ConstructBrokerURL(flags.Host, flags.Project, flags.Broker), NoErr)

-----------------------------------------------------------------------------
(* State *)

VARIABLES
    cmd,        \* the command line: name and flags
    lir,        \* what listInstances returns to cleanupBroker
    pc,         \* position of the command
    call,       \* the adapter call made last: method, params, request, outcome
    log,        \* originating requests issued and how each deletion of cleanup ended
    res,        \* result of the originating create/update/delete call
    caller,     \* who called waitOnOperation
    poll,       \* the closure handed to waitOnOperation
    w,          \* waitOnOperation's locals and return value
    sleeps,     \* the delays slept by the current waitOnOperation, in order
    results,    \* what pollOperation returned to the current waitOnOperation
    idx,        \* cleanupBroker: index of the instance being processed
    bidx,       \* cleanupBroker: index of the binding being processed
    errorMap,   \* cleanupBroker: errorMap
    ret,        \* cleanupBroker's return value
    flags,      \* the BrokerURLConstructor of the command
    entry,      \* its fields when BrokerURL was entered
    urlRet,     \* what BrokerURL returned
    th,         \* concurrent callers of one adapter: each one's call
    frames,     \* the memory holding the locals of the adapter's methods
    secrets,    \* the Secrets the cluster holds
    writes      \* the calls of writeSecret made, in order

vars == <<cmd, lir, pc, call, log, res, caller, poll, w, sleeps, results,
          idx, bidx, errorMap, ret, flags, entry, urlRet, th, frames,
          secrets, writes>>

pollerVars == <<caller, poll, w, sleeps, results>>
cleanupVars == <<idx, bidx, errorMap, ret>>
urlVars == <<flags, entry, urlRet>>
\* the variables the commands of Spec leave alone
sideVars == <<urlVars, th, frames, secrets, writes>>
\* the variables of the commands
cliVars == <<urlVars, cmd, lir, pc, call, log, res, pollerVars, cleanupVars>>

NoCall == [method |-> "none"]
NoPoll == [resource |-> "none"]
EmptyMap == [x \in {} |-> NoErr]

\* values of the flags of the instances and bindings commands
brokerURL == "https://host/v1beta1/projects/p/brokers/b"
\* (bindingsFlags has the same fields, and bindingID)
instancesFlags ==
    [instanceID |-> "i0", bindingID |-> "b0", serviceID |-> "s0", planID |-> "p0"]

\* values of --api-version: the default and another one
ApiVersions == {ApiVersionDefault, "2.12"}

\* server: the broker URL the command resolved from its flags; for brokers
\* create and brokers list, the value of --host (flags.HostBrokerDefault
\* unless given)
CommandLines ==
    [name : {"instances create", "instances delete", "instances update",
             "bindings create", "bindings delete"},
     acceptsIncomplete : BOOLEAN, wait : BOOLEAN,
     operationID : {""}, apiVersion : ApiVersions, server : {brokerURL, BadURL}]
    \cup [name : {"instances poll", "bindings poll"},
          acceptsIncomplete : {FALSE}, wait : {FALSE},
          operationID : {"", "op-1"}, apiVersion : ApiVersions, server : {brokerURL, BadURL}]
    \cup [name : {"brokers delete", "catalog", "instances list"},
          acceptsIncomplete : {FALSE}, wait : {FALSE},
          operationID : {""}, apiVersion : ApiVersions, server : {brokerURL, BadURL}]
    \cup [name : {"brokers create", "brokers list"},
          acceptsIncomplete : {FALSE}, wait : {FALSE},
          operationID : {""}, apiVersion : ApiVersions, server : {"https://host", BadHost}]

CleanupCommandLine ==
    [name |-> "brokers cleanup", acceptsIncomplete |-> FALSE, wait |-> FALSE,
     operationID |-> "", apiVersion |-> ApiVersionDefault, server |-> brokerURL]

\* The runs of cleanupBroker: brokers cleanup with and without --force, and
\* brokers delete --cleanup, which has no --force flag.  line is what the user
\* types at the prompt, as its words (blanks around them are skipped by Scanf).
CleanupCommandLines ==
    {[name |-> c[1], force |-> c[2], line |-> c[3],
      acceptsIncomplete |-> FALSE, wait |-> FALSE, operationID |-> "",
      apiVersion |-> ApiVersionDefault, server |-> brokerURL] :
        c \in ({"brokers cleanup"} \X {FALSE}
                   \X {<<"y">>, <<"Y">>, <<"n">>, <<"yes">>, <<>>, <<"y", "n">>})
               \cup {<<"brokers cleanup", TRUE, <<"n">>>>}
               \cup ({"brokers delete --cleanup"} \X {FALSE} \X {<<"y">>, <<"n">>})}

\* fmt.Scanf("%s\n", &response): the first word of the line, or nothing
Scanf(line) == IF line = <<>> THEN "" ELSE line[1]

\* mutant: every answer that starts like yes is taken
Confirmed_yes(response) == response \in {"y", "Y", "yes"}

\* response == "y" || response == "Y"
Confirmed(response) == response = "y" \/ response = "Y"

\* The listings: n instances with distinct IDs (the broker's instance IDs
\* are unique), each with its own service and plan and up to MaxBindings
\* bindings.
InstanceNames == <<"i1", "i2", "i3", "i4">>
\* f[n]: the number of bindings of the n-th instance
Listing(f) ==
    [n \in DOMAIN f |->
        [ID |-> InstanceNames[n], serviceID |-> "s1", planID |-> "p1",
         bindings |-> [b \in 1..f[n] |-> IF b = 1 THEN "b1" ELSE IF b = 2 THEN "b2"
                                         ELSE IF b = 3 THEN "b3" ELSE "b4"]]]
NoListing == [err |-> NoErr, instances |-> <<>>]

\* Callers (goroutines) that share one httpAdapter.  The struct has one
\* field, client, set by NewHttpAdapter and only read afterwards; the url,
\* the request and the response of a method are locals, held in the frame of
\* the goroutine that called it.
Callers == {1, 2}
Frame_adapterField(c) == 0
Frame(c) == c
NoFrames == [f \in Callers \cup {0} |-> [req |-> Nil, resp |-> NotInvoked]]
NoCallers ==
    [c \in Callers |->
        [pc |-> "idle", method |-> "none", params |-> Nil, sent |-> <<>>,
         tr |-> NotInvoked, out |-> Out(Nil, NoErr), overlap |-> FALSE]]

\* the constructor of a command whose broker URL is already resolved
NoFlags == BrokerURLConstructor(<<>>, <<>>, <<>>, <<>>)

Init ==
    /\ \/ /\ cmd \in CommandLines
          /\ lir = NoListing
       \* the runs with --force get the listings up to the bounds, the runs
       \* that prompt those with one instance and one binding fewer
       \/ /\ cmd \in CleanupCommandLines
          /\ lir \in {[err |-> NoErr, instances |-> Listing(f)] :
                        f \in UNION {[1..n -> 0..(IF cmd.force THEN MaxBindings
                                                  ELSE MaxBindings - 1)] :
                                        n \in 0..(IF cmd.force THEN MaxInstances
                                                  ELSE MaxInstances - 1)}}
                         \cup {[err |-> Errorf("request was not successful", NotJSON),
                                 instances |-> <<>>]}
    /\ pc = "start"
    /\ call = NoCall
    /\ log = <<>>
    /\ res = Nil
    /\ caller = "none"
    /\ poll = NoPoll
    /\ w = waitOnOperationEntry
    /\ sleeps = <<>>
    /\ results = <<>>
    /\ idx = 0
    /\ bidx = 0
    /\ errorMap = EmptyMap
    /\ ret = NotReturned
    /\ flags = NoFlags
    /\ entry = NoFlags
    /\ urlRet = NotReturned
    /\ th = NoCallers
    /\ frames = NoFrames
    /\ secrets = {}
    /\ writes = <<>>

-----------------------------------------------------------------------------
(* The transport: what the broker may answer *)

\* During cleanup the broker answers from these smaller sets; they reach
\* every branch of DeleteBinding, DeleteInstance, of lastOperation for a
\* delete, and of deleteBinding, deleteInstance and cleanupBroker.
CleanupDeleteTransport ==
    {Response(StatusOK, EmptyObject), Response(StatusAccepted, OpObject),
     Response(StatusGone, NotJSON), Response(500, GCPError),
     DoError}

\* the outcomes of a call to rawurl: none when the request cannot be built
Exchange(rawurl, answers) ==
    IF rawurl \in {BadHost, BadURL} THEN {NotInvoked} ELSE answers

Call(method, params, req, tr, out) ==
    [method |-> method, params |-> params, req |-> req, sent |-> Sent(req, tr),
     tr |-> tr, out |-> out]

RequestEvent(method, params) ==
    [ev |-> method, InstanceID |-> params.InstanceID, BindingID |-> params.BindingID]

\* how a deleteBinding or deleteInstance ended: whether it returned nil, and
\* the State of the Operation waitOnOperation handed it (NoState: none)
NoState == "<none>"
ReturnEvent(err, state) == [ev |-> "returned", ok |-> (err = NoErr), State |-> state]

StartWait(who, p) ==
    /\ pc' = "waitOnOperation"
    /\ caller' = who
    /\ poll' = p
    /\ w' = waitOnOperationEntry
    /\ sleeps' = <<>>
    /\ results' = <<>>

-----------------------------------------------------------------------------
(* waitOnOperation: one iteration of its loop per step *)

waitOnOperation ==
    /\ pc = "waitOnOperation"
    /\ LoopCondition(w.curState)
    /\ \E tr \in IF caller = "cmd" THEN AllTransport
                 ELSE {Response(StatusOK, StateObject(s)) :
                          s \in {OperationInProgress, OperationSucceeded,
                                 OperationFailed}}
                      \cup {Response(StatusGone, NotJSON), DoError} :
         LET out == pollOperation(poll, tr)
             st == waitOnOperationIteration(w, out)
         IN  \* the broker no longer answers "in progress" after that many polls
             /\ Len(sleeps) + 1 >= (IF caller = "cmd" THEN MaxPolls ELSE MaxCleanupPolls)
                    => ~(out.err = NoErr /\ out.res.State = OperationInProgress)
             /\ sleeps' = Append(sleeps, w.delay)
             /\ results' = Append(results, out)
             /\ call' = Call(pollOperationMethod(poll), poll.params,
                             pollOperationRequest(poll), tr, out)
             /\ w' = st
             /\ pc' = IF st.ret = NotReturned THEN "waitOnOperation" ELSE "waitReturned"
    /\ UNCHANGED <<sideVars, cmd, lir, log, res, caller, poll, cleanupVars>>

-----------------------------------------------------------------------------
(* The commands of instances.go and bindings.go *)

InstanceFlagsParams ==
    [Server |-> cmd.server, APIVersion |-> cmd.apiVersion,
     AcceptsIncomplete |-> cmd.acceptsIncomplete, InstanceID |-> instancesFlags.instanceID,
     BindingID |-> "", ServiceID |-> instancesFlags.serviceID, PlanID |-> instancesFlags.planID]

BindingFlagsParams ==
    [Server |-> cmd.server, APIVersion |-> cmd.apiVersion,
     AcceptsIncomplete |-> cmd.acceptsIncomplete, InstanceID |-> instancesFlags.instanceID,
     BindingID |-> instancesFlags.bindingID, ServiceID |-> instancesFlags.serviceID, PlanID |-> instancesFlags.planID]

\* What the five commands do with the result of their call: log.Fatalf on an
\* error, return on a synchronous result or without --wait, else poll.
CommandCall(method, params, req, tr, out, p) ==
    /\ call' = Call(method, params, req, tr, out)
    /\ log' = Append(log, RequestEvent(method, params))
    /\ res' = out.res
    /\ IF out.err # NoErr
       THEN pc' = "fatal" /\ UNCHANGED pollerVars
       ELSE IF ~out.res.Async \/ ~cmd.wait
       THEN pc' = "done" /\ UNCHANGED pollerVars
       ELSE StartWait("cmd", p)
    /\ UNCHANGED <<sideVars, cmd, lir, cleanupVars>>

instancesCreateCmd ==
    /\ pc = "start" /\ cmd.name = "instances create"
    /\ \E tr \in Exchange(cmd.server, AllTransport) :
         LET params == InstanceFlagsParams
             out == CreateInstance(params, tr)
         IN  CommandCall("CreateInstance", params, CreateInstanceRequest(params), tr, out,
                 pollInstanceOpFunc(cmd.apiVersion, cmd.server, instancesFlags.instanceID,
                     instancesFlags.serviceID, instancesFlags.planID, out.res.OperationID, OperationCreate))

instancesDeleteCmd ==
    /\ pc = "start" /\ cmd.name = "instances delete"
    /\ \E tr \in Exchange(cmd.server, AllTransport) :
         LET params == InstanceFlagsParams
             out == DeleteInstance(params, tr)
         IN  CommandCall("DeleteInstance", params, DeleteInstanceRequest(params), tr, out,
                 pollInstanceOpFunc(cmd.apiVersion, cmd.server, instancesFlags.instanceID,
                     instancesFlags.serviceID, instancesFlags.planID, out.res.OperationID, OperationDelete))

instancesUpdateCmd ==
    /\ pc = "start" /\ cmd.name = "instances update"
    /\ \E tr \in Exchange(cmd.server, AllTransport) :
         LET params == InstanceFlagsParams
             out == UpdateInstance(params, tr)
         IN  CommandCall("UpdateInstance", params, UpdateInstanceRequest(params), tr, out,
                 pollInstanceOpFunc(cmd.apiVersion, cmd.server, instancesFlags.instanceID,
                     instancesFlags.serviceID, instancesFlags.planID, out.res.OperationID, OperationUpdate))

bindingsCreateCmd ==
    /\ pc = "start" /\ cmd.name = "bindings create"
    /\ \E tr \in Exchange(cmd.server, AllTransport) :
         LET params == BindingFlagsParams
             out == CreateBinding(params, tr)
         IN  CommandCall("CreateBinding", params, CreateBindingRequest(params), tr, out,
                 pollBindingOpFunc(cmd.apiVersion, cmd.server, instancesFlags.instanceID,
                     instancesFlags.bindingID, instancesFlags.serviceID, instancesFlags.planID, out.res.OperationID,
                     OperationCreate))

bindingsDeleteCmd ==
    /\ pc = "start" /\ cmd.name = "bindings delete"
    /\ \E tr \in Exchange(cmd.server, AllTransport) :
         LET params == BindingFlagsParams
             out == DeleteBinding(params, tr)
         IN  CommandCall("DeleteBinding", params, DeleteBindingRequest(params), tr, out,
                 pollBindingOpFunc(cmd.apiVersion, cmd.server, instancesFlags.instanceID,
                     instancesFlags.bindingID, instancesFlags.serviceID, instancesFlags.planID, out.res.OperationID,
                     OperationDelete))

\* mutant: success is reported whenever the poller returned without an error
commandWaitReturn_anyState ==
    /\ pc = "waitReturned" /\ caller = "cmd"
    /\ pc' = IF w.ret.err # NoErr THEN "fatal" ELSE "done"
    /\ UNCHANGED <<sideVars, cmd, lir, call, log, res, pollerVars, cleanupVars>>

\* after waitOnOperation: log.Fatalf on an error or on a state other than
\* succeeded
commandWaitReturn ==
    /\ pc = "waitReturned" /\ caller = "cmd"
    /\ pc' = IF w.ret.err # NoErr THEN "fatal"
             ELSE IF w.ret.res.State = OperationSucceeded THEN "done"
             ELSE "fatal"
    /\ UNCHANGED <<sideVars, cmd, lir, call, log, res, pollerVars, cleanupVars>>

\* instances poll and bindings poll: one call of the closure, type Unknown
PollCmd(p) ==
    /\ \E tr \in Exchange(cmd.server, AllTransport) :
         LET out == pollOperation(p, tr)
         IN  /\ call' = Call(pollOperationMethod(p), p.params, pollOperationRequest(p),
                             tr, out)
             /\ pc' = IF out.err # NoErr THEN "fatal" ELSE "done"
    /\ UNCHANGED <<sideVars, cmd, lir, log, res, pollerVars, cleanupVars>>

instancesPollCmd ==
    /\ pc = "start" /\ cmd.name = "instances poll"
    /\ PollCmd(pollInstanceOpFunc(cmd.apiVersion, cmd.server, instancesFlags.instanceID,
                   instancesFlags.serviceID, instancesFlags.planID, cmd.operationID, OperationUnknown))

bindingsPollCmd ==
    /\ pc = "start" /\ cmd.name = "bindings poll"
    /\ PollCmd(pollBindingOpFunc(cmd.apiVersion, cmd.server, instancesFlags.instanceID,
                   instancesFlags.bindingID, instancesFlags.serviceID, instancesFlags.planID, cmd.operationID,
                   OperationUnknown))


\* the commands that make one admin or catalog call
AdminCall(method, params, req, tr, out) ==
    /\ call' = Call(method, params, req, tr, out)
    /\ res' = out.res
    /\ pc' = IF out.err # NoErr THEN "fatal" ELSE "done"
    /\ UNCHANGED <<sideVars, cmd, lir, log, pollerVars, cleanupVars>>

\* the title defaults to the broker's name
brokersCreateCmd ==
    /\ pc = "start" /\ cmd.name = "brokers create"
    /\ \E tr \in Exchange(cmd.server,
                  AllTransport \cup
                      {Response(StatusOK, BrokerBody(MarshalBroker(
                           Broker(<<"projects", "p", "brokers", "b">>, "b",
                                  "https://www.happifying.com", "now"))))}) :
         LET params == [Host |-> cmd.server, Project |-> "p",
                        Name |-> "b", Title |-> "b"]
         IN  AdminCall("CreateBroker", params, CreateBrokerRequest(params), tr,
                       CreateBroker(params, tr))

\* brokers delete without --cleanup
brokersDeleteCmd ==
    /\ pc = "start" /\ cmd.name = "brokers delete"
    /\ \E tr \in Exchange(cmd.server, AllTransport) :
         LET params == [BrokerURL |-> cmd.server]
         IN  AdminCall("DeleteBroker", params, DeleteBrokerRequest(params), tr,
                       DeleteBroker(params, tr))

\* mutant: the broker is deleted whatever cleanupBroker returned
brokersDeleteCmdCleanup_ignoreError ==
    /\ pc = "done" /\ cmd.name = "brokers delete --cleanup" /\ call.method # "DeleteBroker"
    /\ \E tr \in {Response(StatusOK, EmptyObject), Response(500, NotJSON), DoError} :
         LET params == [BrokerURL |-> cmd.server]
         IN  AdminCall("DeleteBroker", params, DeleteBrokerRequest(params), tr,
                       DeleteBroker(params, tr))

\* brokers delete --cleanup, from the return of cleanupBroker: the command
\* returns on an error, and deletes the broker otherwise
brokersDeleteCmdCleanup ==
    /\ pc = "done" /\ cmd.name = "brokers delete --cleanup" /\ call.method # "DeleteBroker"
    /\ IF ret # NoErr
       THEN /\ pc' = "returned"
            /\ UNCHANGED <<sideVars, cmd, lir, call, log, res, pollerVars, cleanupVars>>
       ELSE \E tr \in {Response(StatusOK, EmptyObject), Response(500, NotJSON), DoError} :
                LET params == [BrokerURL |-> cmd.server]
                IN  AdminCall("DeleteBroker", params, DeleteBrokerRequest(params), tr,
                              DeleteBroker(params, tr))

brokersListCmd ==
    /\ pc = "start" /\ cmd.name = "brokers list"
    /\ \E tr \in Exchange(cmd.server, AllTransport) :
         LET params == [Host |-> cmd.server, Project |-> "p"]
         IN  AdminCall("ListBrokers", params, ListBrokersRequest(params), tr,
                       ListBrokers(params, tr))

catalogCmd ==
    /\ pc = "start" /\ cmd.name = "catalog"
    /\ \E tr \in Exchange(cmd.server, AllTransport) :
         LET params == [Server |-> cmd.server, APIVersion |-> cmd.apiVersion]
         IN  AdminCall("GetCatalog", params, GetCatalogRequest(params), tr,
                       GetCatalog(params, tr))

\* instances list, up to the return of ListInstances in listInstances
instancesListCmd ==
    /\ pc = "start" /\ cmd.name = "instances list"
    /\ \E tr \in Exchange(cmd.server,
                  \* also: a listing with n instances
                  AllTransport \cup
                      {Response(StatusOK,
                           [syntax |-> "object", operation |-> Absent,
                            dashboard_url |-> Absent, state |-> Absent,
                            description |-> Absent, error |-> Absent,
                            instances |-> n]) : n \in 1..MaxInstances}) :
         LET params == [Server |-> cmd.server]
             out == ListInstances(params, tr)
         IN  /\ call' = Call("ListInstances", params, ListInstancesRequest(params), tr, out)
             /\ res' = out.res
             /\ IF out.err # NoErr THEN pc' = "fatal" /\ idx' = idx
                ELSE IF out.res.Instances = 0 THEN pc' = "done" /\ idx' = idx
                ELSE pc' = "ListBindings" /\ idx' = 1
    /\ UNCHANGED <<sideVars, cmd, lir, log, pollerVars, bidx, errorMap, ret>>

\* listInstances: one iteration of its loop over lir.Instances
listInstances ==
    /\ pc = "ListBindings"
    /\ \E tr \in AllTransport :
         LET params == [Server |-> cmd.server, InstanceID |-> InstanceNames[idx]]
             out == ListBindings(params, tr)
         IN  /\ call' = Call("ListBindings", params, ListBindingsRequest(params), tr, out)
             /\ IF out.err # NoErr THEN pc' = "fatal" /\ idx' = idx
                ELSE IF idx = res.Instances THEN pc' = "done" /\ idx' = idx
                ELSE pc' = "ListBindings" /\ idx' = idx + 1
    /\ UNCHANGED <<sideVars, cmd, lir, log, res, pollerVars, bidx, errorMap, ret>>

-----------------------------------------------------------------------------
(* brokers cleanup: cleanupBroker, deleteBinding, deleteInstance *)

\* fmt.Errorf of deleteBinding, deleteInstance and cleanupBroker: the fixed
\* text, the identifiers it quotes and the error, Operation or map it prints
Wrap(text, args, cause) == [type |-> "error", text |-> text, args |-> args, cause |-> cause]

\* mutant: the instance is deleted whatever became of its bindings
ShouldDeleteInstance_always(em, id) == TRUE

\* if _, ok := errorMap[i.ID]; !ok
ShouldDeleteInstance(em, id) == id \notin DOMAIN em

\* mutant: the map is made anew for each failing instance
SetError_fresh(em, id, err) == [x \in {id} |-> err]

\* errorMap[i.ID] = err
SetError(em, id, err) == [x \in DOMAIN em \cup {id} |-> IF x = id THEN err ELSE em[x]]

\* The call site the two loops of cleanupBroker reach next when the inner
\* loop stands at binding b of instance i.
RECURSIVE NextCallSite(_, _, _)
NextCallSite(i, b, em) ==
    IF i > Len(lir.instances)
    THEN [pc |-> "return", idx |-> i, bidx |-> b]
    ELSE IF b <= Len(lir.instances[i].bindings)
    THEN [pc |-> "deleteBinding", idx |-> i, bidx |-> b]
    ELSE IF ShouldDeleteInstance(em, lir.instances[i].ID)
    THEN [pc |-> "deleteInstance", idx |-> i, bidx |-> b]
    ELSE NextCallSite(i + 1, 1, em)

\* Continue cleanupBroker from site; past the last instance it returns.
Resume(site, em) ==
    /\ errorMap' = em
    /\ idx' = site.idx
    /\ bidx' = site.bidx
    /\ IF site.pc = "return"
       THEN /\ pc' = "done"
            /\ ret' = IF Cardinality(DOMAIN em) > 0
                      THEN Wrap("failed to cleanup service instances in broker with error",
                                <<>>, em)
                      ELSE NoErr
       ELSE pc' = site.pc /\ UNCHANGED ret

\* The break of the inner loop: no further binding of instance i is tried.
Break(i) == Len(lir.instances[i].bindings) + 1

\* cleanupBroker up to its first deletion.  force is brokersFlags.force and
\* response what Scanf reads of the line the user types at the prompt.  (The
\* deferred function only lists and prints.)
cleanupBroker ==
    /\ pc = "start" /\ cmd.name \in {"brokers cleanup", "brokers delete --cleanup"}
    /\ LET force == cmd.force
           response == Scanf(cmd.line)
       IN
         IF lir.err # NoErr
         THEN pc' = "done" /\ ret' = lir.err /\ UNCHANGED <<idx, bidx, errorMap>>
         ELSE IF Len(lir.instances) = 0
         THEN pc' = "done" /\ ret' = NoErr /\ UNCHANGED <<idx, bidx, errorMap>>
         ELSE IF ~force /\ ~Confirmed(response)
         THEN /\ pc' = "done"
              /\ ret' = Wrap(userCancelledBrokerCleanup, <<>>, NoErr)
              /\ UNCHANGED <<idx, bidx, errorMap>>
         ELSE Resume(NextCallSite(1, 1, EmptyMap), EmptyMap)
    /\ UNCHANGED <<sideVars, cmd, lir, call, log, res, pollerVars>>

\* deleteBinding up to waitOnOperation
deleteBinding ==
    /\ pc = "deleteBinding"
    /\ \E tr \in CleanupDeleteTransport :
         LET i == lir.instances[idx]
             params == [Server |-> brokerURL, InstanceID |-> i.ID,
                        BindingID |-> i.bindings[bidx], ServiceID |-> i.serviceID,
                        PlanID |-> i.planID, AcceptsIncomplete |-> TRUE,
                        APIVersion |-> ApiVersionDefault]
             out == DeleteBinding(params, tr)
         IN  /\ call' = Call("DeleteBinding", params, DeleteBindingRequest(params), tr, out)
             /\ res' = out.res
             /\ IF out.err # NoErr
                THEN /\ log' = log \o <<RequestEvent("DeleteBinding", params),
                                        ReturnEvent(out.err, NoState)>>
                     /\ Resume(NextCallSite(idx, Break(idx), SetError(errorMap, i.ID, out.err)),
                               SetError(errorMap, i.ID, out.err))
                     /\ UNCHANGED pollerVars
                ELSE /\ log' = Append(log, RequestEvent("DeleteBinding", params))
                     /\ StartWait("deleteBinding",
                            pollBindingOpFunc(ApiVersionDefault, brokerURL, i.ID,
                                i.bindings[bidx], i.serviceID, i.planID,
                                out.res.OperationID, OperationDelete))
                     /\ UNCHANGED cleanupVars
    /\ UNCHANGED <<sideVars, cmd, lir>>

\* deleteBinding from the return of waitOnOperation, and cleanupBroker on to
\* its next call
deleteBindingReturn ==
    /\ pc = "waitReturned" /\ caller = "deleteBinding"
    /\ LET i == lir.instances[idx]
           err == IF w.ret.err # NoErr
                  THEN Wrap("Error polling last operation for binding",
                            <<res.OperationID, i.bindings[bidx], i.ID, brokerURL>>,
                            w.ret.err)
                  ELSE IF w.ret.res.State = OperationSucceeded
                  THEN NoErr
                  ELSE Wrap("Failed to delete binding",
                            <<i.bindings[bidx], i.ID, brokerURL>>, w.ret.res)
           state == IF w.ret.err = NoErr THEN w.ret.res.State ELSE NoState
       IN  /\ log' = Append(log, ReturnEvent(err, state))
           /\ IF err # NoErr
              THEN Resume(NextCallSite(idx, Break(idx), SetError(errorMap, i.ID, err)),
                          SetError(errorMap, i.ID, err))
              ELSE Resume(NextCallSite(idx, bidx + 1, errorMap), errorMap)
    /\ UNCHANGED <<sideVars, cmd, lir, call, res, pollerVars>>

\* deleteInstance up to waitOnOperation
deleteInstance ==
    /\ pc = "deleteInstance"
    /\ \E tr \in CleanupDeleteTransport :
         LET i == lir.instances[idx]
             params == [Server |-> brokerURL, InstanceID |-> i.ID, BindingID |-> "",
                        ServiceID |-> i.serviceID, PlanID |-> i.planID,
                        AcceptsIncomplete |-> TRUE, APIVersion |-> ApiVersionDefault]
             out == DeleteInstance(params, tr)
         IN  /\ call' = Call("DeleteInstance", params, DeleteInstanceRequest(params), tr, out)
             /\ res' = out.res
             /\ IF out.err # NoErr
                THEN /\ log' = log \o <<RequestEvent("DeleteInstance", params),
                                        ReturnEvent(out.err, NoState)>>
                     /\ Resume(NextCallSite(idx + 1, 1, SetError(errorMap, i.ID, out.err)),
                               SetError(errorMap, i.ID, out.err))
                     /\ UNCHANGED pollerVars
                ELSE /\ log' = Append(log, RequestEvent("DeleteInstance", params))
                     /\ StartWait("deleteInstance",
                            pollInstanceOpFunc(ApiVersionDefault, brokerURL, i.ID,
                                i.serviceID, i.planID, out.res.OperationID,
                                OperationDelete))
                     /\ UNCHANGED cleanupVars
    /\ UNCHANGED <<sideVars, cmd, lir>>

\* deleteInstance from the return of waitOnOperation, and cleanupBroker on to
\* its next call
deleteInstanceReturn ==
    /\ pc = "waitReturned" /\ caller = "deleteInstance"
    /\ LET i == lir.instances[idx]
           err == IF w.ret.err # NoErr
                  THEN Wrap("Error polling last operation for instance",
                            <<res.OperationID, i.ID, brokerURL>>, w.ret.err)
                  ELSE IF w.ret.res.State = OperationSucceeded
                  THEN NoErr
                  ELSE Wrap("Failed to delete instance", <<i.ID, brokerURL>>, w.ret.res)
           state == IF w.ret.err = NoErr THEN w.ret.res.State ELSE NoState
           em == IF err # NoErr THEN SetError(errorMap, i.ID, err) ELSE errorMap
       IN  /\ log' = Append(log, ReturnEvent(err, state))
           /\ Resume(NextCallSite(idx + 1, 1, em), em)
    /\ UNCHANGED <<sideVars, cmd, lir, call, res, pollerVars>>

Next ==
    \/ instancesCreateCmd
    \/ instancesDeleteCmd
    \/ instancesUpdateCmd
    \/ bindingsCreateCmd
    \/ bindingsDeleteCmd
    \/ instancesPollCmd
    \/ bindingsPollCmd
    \/ commandWaitReturn
    \/ waitOnOperation
    \/ cleanupBroker
    \/ deleteBinding
    \/ deleteBindingReturn
    \/ deleteInstance
    \/ deleteInstanceReturn
    \/ brokersCreateCmd
    \/ brokersDeleteCmd
    \/ brokersDeleteCmdCleanup
    \/ brokersListCmd
    \/ catalogCmd
    \/ instancesListCmd
    \/ listInstances

Spec == Init /\ [][Next]_vars

-----------------------------------------------------------------------------
(* BrokerURL on its own: the flags are drawn, the command resolves its     *)
(* broker URL in one step.                                                 *)

Hosts ==
    {<<>>, <<"host">>, <<"https:", "/", "/", "host">>,
     <<"https:", "/", "/", "host", "/", "api">>}

\* values of --project and --broker
Names == {<<>>, <<"p">>, <<"b">>, <<"p", "/", "b">>}

\* values of --server: none, the URLs ConstructBrokerURL builds (also on
\* another host), and URLs that miss a path key or the scheme's parts, or
\* end in "/"
Servers ==
    {<<>>}
        \cup {ConstructBrokerURL(h, p, b) :
                 h \in Hosts \cup {<<"https:", "/", "/", "other">>},
                 p \in Names, b \in Names}
        \cup {<<"https:", "/", "/", "host">>,
              <<"https:", "/", "/", "host", "/", "v1", "/", projectsKey, "/",
                "p", "/", brokersKey, "/", "b">>,
              <<"https:", "/", "/", "host", "/", betaKey, "/", projectsKey,
                "/", "p", "/", brokersKey>>,
              <<"https:", "/", "/", "host", "/", betaKey, "/", brokersKey,
                "/", "b", "/", projectsKey, "/", "p">>,
              ConstructBrokerURL(<<"https:", "/", "/", "host">>, <<"p">>, <<"b">>)
                  \o <<"/">>}

InitBrokerURL ==
    /\ flags \in {BrokerURLConstructor(b, h, p, s) :
                     b \in Names, h \in Hosts, p \in Names, s \in Servers}
    /\ entry = flags
    /\ urlRet = NotReturned
    /\ cmd = [name |-> "instances poll", acceptsIncomplete |-> FALSE, wait |-> FALSE,
               operationID |-> "", apiVersion |-> ApiVersionDefault, server |-> brokerURL]
    /\ lir = NoListing
    /\ pc = "BrokerURL"
    /\ call = NoCall
    /\ log = <<>>
    /\ res = Nil
    /\ caller = "none"
    /\ poll = NoPoll
    /\ w = waitOnOperationEntry
    /\ sleeps = <<>>
    /\ results = <<>>
    /\ idx = 0
    /\ bidx = 0
    /\ errorMap = EmptyMap
    /\ ret = NotReturned
    /\ th = NoCallers
    /\ frames = NoFrames
    /\ secrets = {}
    /\ writes = <<>>

\* brokerURL, err := instancesFlags.BrokerURL(), and once more on the same
\* constructor after a call that succeeded; first is what the call before
\* returned
commandBrokerURL ==
    /\ pc \in {"BrokerURL", "resolved"}
    /\ LET r == BrokerURL(flags)
       IN  /\ entry' = flags
           /\ flags' = r.flags
           /\ urlRet' = [returned |-> TRUE, url |-> r.url, err |-> r.err,
                         first |-> urlRet]
           /\ pc' = IF r.err # NoErr THEN "fatal"
                    ELSE IF pc = "BrokerURL" THEN "resolved" ELSE "resolved again"
    /\ UNCHANGED <<th, frames, secrets, writes, cmd, lir, call, log, res, pollerVars,
                   cleanupVars>>

SpecBrokerURL == InitBrokerURL /\ [][commandBrokerURL]_vars

-----------------------------------------------------------------------------
(* Concurrent callers of one httpAdapter.  A call takes three steps: the   *)
(* method builds its request, DoClient.Do exchanges it, the method         *)
(* interprets the response.  Steps of different callers interleave.        *)

\* the calls a caller may make: the parameters by method
ParamsOf ==
    [m \in {"CreateInstance", "DeleteInstance", "CreateBinding", "ListBindings",
            "CreateBroker"} |->
        IF m = "CreateBroker"
        THEN [Host : {"https://host"}, Project : {"p"}, Name : {"b"}, Title : {"", "t"}]
        ELSE [Server : {brokerURL}, APIVersion : ApiVersions,
              AcceptsIncomplete : BOOLEAN, InstanceID : {"i1", "i2"},
              BindingID : {"b0"}, ServiceID : {"s0"}, PlanID : {"p0"}]]

\* what the server may answer to CreateBroker besides: a 2xx with a Broker
\* of its own making (title, url, createTime present or not)
BrokerTransport ==
    {Response(code, BrokerBody(MarshalBroker(
         Broker(<<"projects", "p", "brokers", "b">>, title, url, createTime)))) :
        code \in {StatusOK, StatusCreated}, title \in {"", "t"},
        url \in {NilPtr, "", "https://www.happifying.com"},
        createTime \in {NilPtr, "now"}}

\* the request a method builds from its parameters
RequestOf(method, params) ==
    CASE method = "CreateInstance" -> CreateInstanceRequest(params)
      [] method = "DeleteInstance" -> DeleteInstanceRequest(params)
      [] method = "CreateBinding" -> CreateBindingRequest(params)
      [] method = "ListBindings" -> ListBindingsRequest(params)
      [] method = "CreateBroker" -> CreateBrokerRequest(params)

\* what a method returns for the transport's outcome
ResultOf(method, params, tr) ==
    CASE method = "CreateInstance" -> CreateInstance(params, tr)
      [] method = "DeleteInstance" -> DeleteInstance(params, tr)
      [] method = "CreateBinding" -> CreateBinding(params, tr)
      [] method = "ListBindings" -> ListBindings(params, tr)
      [] method = "CreateBroker" -> CreateBroker(params, tr)

\* no command runs: the packages are used as libraries
Idle ==
    /\ cmd = CleanupCommandLine
    /\ lir = NoListing
    /\ pc = "library"
    /\ call = NoCall
    /\ log = <<>>
    /\ res = Nil
    /\ caller = "none"
    /\ poll = NoPoll
    /\ w = waitOnOperationEntry
    /\ sleeps = <<>>
    /\ results = <<>>
    /\ idx = 0
    /\ bidx = 0
    /\ errorMap = EmptyMap
    /\ ret = NotReturned
    /\ flags = NoFlags
    /\ entry = NoFlags
    /\ urlRet = NotReturned

InitConcurrent ==
    /\ Idle
    /\ th = NoCallers
    /\ frames = NoFrames
    /\ secrets = {}
    /\ writes = <<>>

\* caller c enters a method, which builds its request
goCall(c) ==
    /\ th[c].pc = "idle"
    /\ \E method \in DOMAIN ParamsOf : \E params \in ParamsOf[method] :
         LET busy == {d \in Callers \ {c} : th[d].pc \in {"built", "answered"}}
         IN  /\ th' = [d \in Callers |->
                         IF d = c
                         THEN [th[c] EXCEPT !.pc = "built", !.method = method,
                                            !.params = params, !.overlap = busy # {}]
                         ELSE IF d \in busy THEN [th[d] EXCEPT !.overlap = TRUE]
                         ELSE th[d]]
             /\ frames' = [frames EXCEPT ![Frame(c)].req = RequestOf(method, params)]
    /\ UNCHANGED <<cliVars, secrets, writes>>

\* adapter.client.Do(req) and ioutil.ReadAll: the transport receives the
\* request and answers
goDo(c) ==
    /\ th[c].pc = "built"
    /\ \E tr \in {Response(StatusOK, EmptyObject), Response(StatusAccepted, OpObject),
                   Response(StatusConflict, GCPError), DoError}
                  \cup (IF th[c].method = "CreateBroker" THEN BrokerTransport ELSE {}) :
         /\ th' = [th EXCEPT ![c].pc = "answered",
                             ![c].sent = Sent(frames[Frame(c)].req, tr),
                             ![c].tr = tr]
         /\ frames' = [frames EXCEPT ![Frame(c)].resp = tr]
    /\ UNCHANGED <<cliVars, secrets, writes>>

\* the method interprets the response and returns
goReturn(c) ==
    /\ th[c].pc = "answered"
    /\ th' = [th EXCEPT ![c].pc = "returned",
                        ![c].out = ResultOf(th[c].method, th[c].params,
                                            frames[Frame(c)].resp)]
    /\ UNCHANGED <<frames, cliVars, secrets, writes>>

NextConcurrent == \E c \in Callers : goCall(c) \/ goDo(c) \/ goReturn(c)

SpecConcurrent == InitConcurrent /\ [][NextConcurrent]_vars

-----------------------------------------------------------------------------
(* package auth: writeSecret.  The cluster's Secrets are a set of objects; *)
(* the API server keeps namespace/name unique (Create answers              *)
(* AlreadyExists).  Data is a map from key to value, or nil.               *)

MaxWrites == 3

tokenKey == "token"

Secret(namespace, name, dataNil, data) ==
    [Namespace |-> namespace, Name |-> name, DataNil |-> dataNil, Data |-> data]

\* the Secrets named namespace/name
Named(namespace, name) ==
    {s \in secrets : s.Namespace = namespace /\ s.Name = name}

\* a Secret of another namespace, and the target as it may exist before the
\* first call: not at all, without Data, or with Data of its owner (the
\* Secret read by the controller can name itself as the target)
InitSecrets ==
    /\ Idle
    /\ th = NoCallers
    /\ frames = NoFrames
    /\ \E before \in {{}, {Secret("ns", "a", TRUE, <<>>)},
                      {Secret("ns", "a", FALSE, [k \in {"key"} |-> "k0"])},
                      {Secret("ns", "a", FALSE,
                              [k \in {"key", tokenKey} |-> IF k = "key" THEN "k0" ELSE "t0"])}} :
         secrets = before \cup {Secret("other", "a", FALSE, [k \in {tokenKey} |-> "t0"])}
    /\ writes = <<>>

\* what a call of writeSecret leaves in writes
Written(token, namespace, name, verb, ok, before, after) ==
    [token |-> token, namespace |-> namespace, name |-> name, verb |-> verb,
     ok |-> ok, before |-> before, after |-> after]

writeSecret_freshData(token, namespace, name) ==
    /\ Len(writes) < MaxWrites
    /\ \E getOK \in BOOLEAN, writeOK \in BOOLEAN :
         LET found == Named(namespace, name)
             secret == CHOOSE s \in found : TRUE
             made == Secret(namespace, name, FALSE, [k \in {tokenKey} |-> token])
         IN  IF ~getOK
             THEN /\ writes' = Append(writes, Written(token, namespace, name, "get",
                                                      FALSE, found, found))
                  /\ UNCHANGED secrets
             ELSE /\ secrets' = IF writeOK THEN (secrets \ found) \cup {made} ELSE secrets
                  /\ writes' = Append(writes,
                                 Written(token, namespace, name,
                                         IF found = {} THEN "create" ELSE "update",
                                         writeOK, found, IF writeOK THEN {made} ELSE found))
    /\ UNCHANGED <<cliVars, th, frames>>

\* getOK: Get answers the Secret or NotFound, not another error; writeOK:
\* Create or Update succeeds
writeSecret(token, namespace, name) ==
    /\ Len(writes) < MaxWrites
    /\ \E getOK \in BOOLEAN, writeOK \in BOOLEAN :
         LET found == Named(namespace, name)
             secret == CHOOSE s \in found : TRUE
             made == Secret(namespace, name, FALSE, [k \in {tokenKey} |-> token])
             \* if secret.Data == nil { make }; secret.Data[tokenKey] = token
             data == IF secret.DataNil THEN <<>> ELSE secret.Data
             updated == [secret EXCEPT
                            !.DataNil = FALSE,
                            !.Data = [k \in DOMAIN data \cup {tokenKey} |->
                                         IF k = tokenKey THEN token ELSE data[k]]]
         IN  IF ~getOK
             THEN /\ writes' = Append(writes, Written(token, namespace, name, "get",
                                                      FALSE, found, found))
                  /\ UNCHANGED secrets
             ELSE IF found = {}
             THEN /\ secrets' = IF writeOK THEN secrets \cup {made} ELSE secrets
                  /\ writes' = Append(writes, Written(token, namespace, name, "create",
                                          writeOK, found, IF writeOK THEN {made} ELSE found))
             ELSE /\ secrets' = IF writeOK THEN (secrets \ {secret}) \cup {updated}
                                ELSE secrets
                  /\ writes' = Append(writes, Written(token, namespace, name, "update",
                                          writeOK, found,
                                          IF writeOK THEN {updated} ELSE found))
    /\ UNCHANGED <<cliVars, th, frames>>

\* WriteTokenSecret -> writeSecret, with a fresh token each time
SpecSecrets ==
    /\ InitSecrets
    /\ [][\E token \in {"t1", "t2"}, name \in {"a", "b"} :
              writeSecret(token, "ns", name)]_vars

-----------------------------------------------------------------------------
(* waitOnOperation on its own, against a broker that may answer "in        *)
(* progress" for ever.  One iteration is two steps: the sleep and the call *)
(* of the closure, then the rest of the loop body and the loop test.  The  *)
(* record of sleeps stops growing at MaxCounted; the loop does not.        *)

MaxCounted == 8

InitPoller ==
    /\ cmd = CleanupCommandLine
    /\ lir = NoListing
    /\ pc = "waitOnOperation"
    /\ call = NoCall
    /\ log = <<>>
    /\ res = Nil
    /\ caller = "poller"
    /\ poll \in {pollInstanceOpFunc(ApiVersionDefault, brokerURL, "i0", "s0", "p0", "op",
                                    OperationCreate),
                 pollBindingOpFunc(ApiVersionDefault, brokerURL, "i0", "b0", "s0", "p0",
                                   "op", OperationDelete)}
    /\ w = waitOnOperationEntry
    /\ sleeps = <<>>
    /\ results = <<>>
    /\ idx = 0
    /\ bidx = 0
    /\ errorMap = EmptyMap
    /\ ret = NotReturned
    /\ flags = NoFlags
    /\ entry = NoFlags
    /\ urlRet = NotReturned
    /\ th = NoCallers
    /\ frames = NoFrames
    /\ secrets = {}
    /\ writes = <<>>

\* time.Sleep(delay); op, err = pollOperation()
waitOnOperationPoll ==
    /\ pc = "waitOnOperation" /\ caller = "poller"
    /\ LoopCondition(w.curState)
    /\ \E tr \in Exchange(brokerURL, AllTransport) :
         /\ call' = Call(pollOperationMethod(poll), poll.params,
                         pollOperationRequest(poll), tr, pollOperation(poll, tr))
         /\ sleeps' = IF Len(sleeps) < MaxCounted THEN Append(sleeps, w.delay)
                      ELSE sleeps
         /\ pc' = "polled"
    /\ UNCHANGED <<sideVars, cmd, lir, log, res, caller, poll, w, results, cleanupVars>>

\* the error test, the next delay, curState = op.State and the loop test
waitOnOperationLoop ==
    /\ pc = "polled" /\ caller = "poller"
    /\ w' = waitOnOperationIteration(w, call.out)
    /\ pc' = IF w'.ret = NotReturned THEN "waitOnOperation" ELSE "waitReturned"
    /\ UNCHANGED <<sideVars, cmd, lir, call, log, res, caller, poll, sleeps, results,
                   cleanupVars>>

\* the goroutine keeps running: time.Sleep ends, and the closure returns
SpecPoller ==
    /\ InitPoller
    /\ [][waitOnOperationPoll \/ waitOnOperationLoop]_vars
    /\ WF_vars(waitOnOperationPoll)
    /\ WF_vars(waitOnOperationLoop)

-----------------------------------------------------------------------------
(* Properties *)

IsRequest(e) == e.ev # "returned"

\* the bindings for which a DeleteBinding of instance id was issued before
\* position k of the log, in the order of issue
BindingDeletesBefore(k, id) ==
    LET sel == SelectSeq(SubSeq(log, 1, k - 1),
                         LAMBDA e : e.ev = "DeleteBinding" /\ e.InstanceID = id)
    IN  [j \in 1..Len(sel) |-> sel[j].BindingID]

ListedWithID(id) == CHOOSE n \in DOMAIN lir.instances : lir.instances[n].ID = id

\* the number of DeleteInstance requests issued for instance id
InstanceDeletes(id) ==
    Cardinality({k \in DOMAIN log : log[k].ev = "DeleteInstance" /\ log[k].InstanceID = id})

\* every DeleteBinding issued for instance id has returned nil
BindingDeletesSucceeded(id) ==
    \A p \in DOMAIN log :
        (log[p].ev = "DeleteBinding" /\ log[p].InstanceID = id)
            => p < Len(log) /\ log[p + 1].ev = "returned" /\ log[p + 1].ok

\* cleanupBroker has left its loop over the instances
CleanupLoopDone ==
    cmd.name = "brokers cleanup" /\ pc = "done" /\ idx > Len(lir.instances)

\* C1: in cleanupBroker a DeleteInstance for a listed instance is issued only
\* after one DeleteBinding for each of its listed bindings, in list order,
\* each polled to a terminal state; and once the loop is over, an instance
\* whose k binding deletions all succeeded has had exactly k DeleteBinding
\* requests followed by exactly one DeleteInstance request.
C1_BindingsBeforeInstance ==
    cmd.name = "brokers cleanup" =>
        /\ \A k \in DOMAIN log :
             log[k].ev = "DeleteInstance" =>
                LET id == log[k].InstanceID
                    i == lir.instances[ListedWithID(id)]
                IN  /\ BindingDeletesBefore(k, id) = i.bindings
                    /\ \A p \in 1..(k - 1) :
                         (log[p].ev = "DeleteBinding" /\ log[p].InstanceID = id)
                            => /\ log[p + 1].ev = "returned"
                               /\ log[p + 1].State \notin {NoState, OperationInProgress}
        /\ \A n \in DOMAIN lir.instances :
             LET i == lir.instances[n]
             IN  /\ InstanceDeletes(i.ID) <= 1
                 /\ (/\ CleanupLoopDone
                     /\ BindingDeletesBefore(Len(log) + 1, i.ID) = i.bindings
                     /\ BindingDeletesSucceeded(i.ID))
                        => InstanceDeletes(i.ID) = 1

\* an instance with two bindings has been deleted after both its bindings,
\* one of them asynchronously
C1_Witness ==
    /\ CleanupLoopDone
    /\ \E k \in DOMAIN log :
         /\ log[k].ev = "DeleteInstance"
         /\ Len(lir.instances[ListedWithID(log[k].InstanceID)].bindings) = 2
         /\ k > 4

\* what pollOperation returned on its k-th call of the current run
Polled(k) == results[k]
PolledInProgress(k) ==
    Polled(k).err = NoErr /\ Polled(k).res.State = OperationInProgress
Returned == pc # "waitOnOperation" /\ w.ret # NotReturned

\* C2: when the query answers "in progress" N times and then "succeeded",
\* waitOnOperation calls it exactly N+1 times and returns the Operation of
\* call N+1 with a nil error; it never returns without having polled.
C2_PollsUntilSucceeded ==
    /\ \A k \in DOMAIN results :
         (/\ \A j \in 1..(k - 1) : PolledInProgress(j)
          /\ Polled(k).err = NoErr
          /\ Polled(k).res.State = OperationSucceeded)
            => /\ Len(results) = k
               /\ Len(sleeps) = k
               /\ Returned
               /\ w.ret = Out(Polled(k).res, NoErr)
    /\ w.ret # NotReturned => Len(results) >= 1

\* two polls "in progress", the third "succeeded"
C2_Witness ==
    /\ Len(results) = 3
    /\ PolledInProgress(1) /\ PolledInProgress(2)
    /\ Polled(3).err = NoErr /\ Polled(3).res.State = OperationSucceeded
    /\ Returned

\* C3: when the k-th call of the query fails, waitOnOperation returns that
\* error with a nil Operation and the query is never called again.
C3_ErrorEndsPolling ==
    \A k \in DOMAIN results :
        Polled(k).err # NoErr
            => /\ Len(results) = k
               /\ Len(sleeps) = k
               /\ Returned
               /\ w.ret = Out(Nil, Polled(k).err)

\* the third poll fails after two "in progress"
C3_Witness ==
    /\ Len(results) = 3
    /\ PolledInProgress(1) /\ PolledInProgress(2)
    /\ Polled(3).err # NoErr
    /\ Returned

IsLastOperation == call.method \in {"InstanceLastOperation", "BindingLastOperation"}
Answered(code) == call.tr.kind = "resp" /\ call.tr.code = code

\* C4: a 410 answer to InstanceLastOperation or BindingLastOperation gives
\* State "succeeded" and no error for OperationType Delete, and an error and
\* no Operation for Create, Update and Unknown.
C4_GoneLastOperation ==
    (IsLastOperation /\ Answered(StatusGone)) =>
        IF call.params.OperationType = OperationDelete
        THEN call.out.err = NoErr /\ call.out.res.State = OperationSucceeded
        ELSE call.out.err # NoErr /\ call.out.res = Nil

\* a binding poll of type Delete was answered 410
C4_Witness ==
    /\ call.method = "BindingLastOperation" /\ Answered(StatusGone)
    /\ call.params.OperationType = OperationDelete
    /\ call.out.res # Nil

IsDelete == call.method \in {"DeleteInstance", "DeleteBinding"}

\* C5: DeleteInstance and DeleteBinding return Async = false and a nil error
\* for 200 and for 410, whatever AcceptsIncomplete and the body are.
C5_DeleteSyncCodes ==
    (IsDelete /\ (Answered(StatusOK) \/ Answered(StatusGone)))
        => call.out.err = NoErr /\ call.out.res.Async = FALSE

\* DeleteBinding answered 410 with a body that is not JSON, accepts_incomplete
\* false
C5_Witness ==
    /\ call.method = "DeleteBinding" /\ Answered(StatusGone)
    /\ call.tr.body = NotJSON
    /\ ~call.params.AcceptsIncomplete
    /\ call.out.res # Nil

AsyncEligible ==
    call.method \in {"CreateInstance", "UpdateInstance", "DeleteInstance",
                     "CreateBinding", "DeleteBinding"}

\* C6: for the five create/update/delete calls a 202 answer to a request made
\* with AcceptsIncomplete = false gives an error and no result.
C6_UnexpectedAsync ==
    (AsyncEligible /\ Answered(StatusAccepted) /\ ~call.params.AcceptsIncomplete)
        => call.out.err # NoErr /\ call.out.res = Nil

\* UpdateInstance without accepts_incomplete answered 202 with an operation
C6_Witness ==
    /\ call.method = "UpdateInstance" /\ Answered(StatusAccepted)
    /\ ~call.params.AcceptsIncomplete
    /\ call.tr.body = OpObject
    /\ pc = "fatal"

Is2xx(code) == code >= 200 /\ code <= 299

DocumentedSyncCodes ==
    [CreateInstance |-> {200, 201}, CreateBinding |-> {200, 201},
     UpdateInstance |-> {200}, DeleteInstance |-> {200, 410},
     DeleteBinding |-> {200, 410}]

\* the fields of the body each call decodes on such a code
DecodedOnSync ==
    [CreateInstance |-> {"dashboard_url", "operation"}, CreateBinding |-> {"operation"},
     UpdateInstance |-> {"operation"}, DeleteInstance |-> {}, DeleteBinding |-> {}]

C8_OtherStatesAreTerminal ==
    \A k \in DOMAIN results :
        (Polled(k).err = NoErr /\ Polled(k).res.State # OperationInProgress)
            => /\ Len(results) = k
               /\ Returned
               /\ w.ret.err = NoErr
               /\ w.ret.res = Polled(k).res

\* "failed" on the second poll is returned as the Operation
C8_Witness ==
    /\ Len(results) = 2
    /\ PolledInProgress(1)
    /\ Polled(2).err = NoErr /\ Polled(2).res.State = OperationFailed
    /\ Returned
    /\ w.ret.res.State = OperationFailed

RECURSIVE Pow2(_)
Pow2(n) == IF n = 0 THEN 1 ELSE 2 * Pow2(n - 1)

\* C9: the sleep before the k-th poll lasts min(6s, 100ms * 2^(k-1)); the
\* delay is doubled after each poll that returned without error, never
\* shrinks and never exceeds 6s.
C9_Backoff ==
    /\ \A k \in DOMAIN sleeps :
         /\ sleeps[k] = Min(6000, 100 * Pow2(k - 1))
         /\ sleeps[k] <= 6000
         /\ k > 1 => sleeps[k - 1] <= sleeps[k]
    /\ pc = "waitOnOperation" => w.delay = Min(6000, 100 * Pow2(Len(sleeps)))

\* the seventh sleep is the first capped one, the eighth stays at the cap
C9_Witness ==
    /\ Len(sleeps) >= 8
    /\ sleeps[6] = 3200
    /\ sleeps[7] = 6000
    /\ sleeps[8] = 6000

\* a deletion issued for instance id did not return nil
DeletionFailed(id) ==
    \E p \in DOMAIN log :
        /\ IsRequest(log[p]) /\ log[p].InstanceID = id
        /\ p < Len(log) /\ log[p + 1].ev = "returned" /\ ~log[p + 1].ok

FailedInstances ==
    {lir.instances[n].ID : n \in {m \in DOMAIN lir.instances :
                                     DeletionFailed(lir.instances[m].ID)}}

\* C10: cleanupBroker goes through every listed instance whatever happened
\* to the earlier ones; after the loop it returns nil exactly when no instance
\* failed, and otherwise one error built from the map whose keys are the IDs
\* of the instances one of whose deletions failed.
C10_CleanupCollectsErrors ==
    CleanupLoopDone =>
        /\ \A n \in DOMAIN lir.instances :
             \E p \in DOMAIN log :
                IsRequest(log[p]) /\ log[p].InstanceID = lir.instances[n].ID
        /\ (ret = NoErr) <=> (FailedInstances = {})
        /\ ret # NoErr =>
             /\ ret.type = "error"
             /\ DOMAIN ret.cause = FailedInstances
             /\ ret.cause = errorMap

\* the first instance failed at a binding, the second was still deleted
C10_Witness ==
    /\ CleanupLoopDone
    /\ Len(lir.instances) = 2
    /\ FailedInstances = {"i1"}
    /\ InstanceDeletes("i2") = 1
    /\ InstanceDeletes("i1") = 0
    /\ DOMAIN ret.cause = {"i1"}

-----------------------------------------------------------------------------
(* BrokerURL *)

Given(s) == s # <<>>
BothModes(f) == Given(f.Server) /\ Given(f.Project) /\ Given(f.Broker)
NoMode(f) == ~Given(f.Server) /\ (~Given(f.Project) \/ ~Given(f.Broker))
ServerMode(f) == Given(f.Server) /\ ~Given(f.Project) /\ ~Given(f.Broker)
ProjectMode(f) == ~Given(f.Server) /\ Given(f.Project) /\ Given(f.Broker)

\* C11: when Server, Project and Broker are all given, and when Server is
\* empty and Project or Broker is empty, BrokerURL returns the empty URL and
\* a non-nil error and leaves the constructor's fields as they were.
C11_BothOrNeitherRejected ==
    (urlRet.returned /\ (BothModes(entry) \/ NoMode(entry)))
        => /\ urlRet.url = <<>>
           /\ urlRet.err # NoErr
           /\ flags = entry

C11_Witness ==
    /\ urlRet.returned
    /\ BothModes(entry)
    /\ entry.Server = ConstructBrokerURL(entry.Host, <<"p">>, <<"b">>)
    /\ Len(Split(entry.Host)) >= 3
    /\ urlRet.err # NoErr

\* C12: whenever BrokerURL returns a URL and a nil error, exactly one
\* addressing mode was given on entry: Server alone, or Project and Broker
\* without Server.
C12_ExactlyOneMode ==
    (urlRet.returned /\ urlRet.err = NoErr)
        => (ServerMode(entry) \/ ProjectMode(entry))

\* names that are not empty and hold no "/"
SimpleNames == {n \in Names : Given(n) /\ Len(Split(n)) = 1}

RoundTrip(host, p, b) ==
    /\ (entry = BrokerURLConstructor(<<>>, host, <<>>, ConstructBrokerURL(host, p, b)))
          => /\ urlRet.url = entry.Server
             /\ urlRet.err = NoErr
             /\ flags.Project = p
             /\ flags.Broker = b
    /\ (entry = BrokerURLConstructor(b, host, p, <<>>))
          => /\ urlRet.url = ConstructBrokerURL(host, p, b)
             /\ urlRet.err = NoErr

\* C13 as claimed: for every Host and all non-empty P and B without "/",
\* BrokerURL returns Server = ConstructBrokerURL(Host, P, B) unchanged and sets
\* Project = P and Broker = B, and from Project = P and Broker = B it returns
\* ConstructBrokerURL(Host, P, B).
C13_InvertsForEveryHost ==
    urlRet.returned
        => \A p \in SimpleNames, b \in SimpleNames : RoundTrip(entry.Host, p, b)

\* C13 amended: the same, for every Host that holds at least two "/" (a
\* scheme://host), so that the URL splits into eight parts or more; from
\* Project and Broker the URL is built for every Host.
C13_InvertsConstruct ==
    urlRet.returned
        => \A p \in SimpleNames, b \in SimpleNames :
               (Len(Split(entry.Host)) >= 3 \/ ~Given(entry.Server))
                   => RoundTrip(entry.Host, p, b)

C13_Witness ==
    /\ urlRet.returned
    /\ entry = BrokerURLConstructor(<<>>, <<"https:", "/", "/", "host">>, <<>>,
                    ConstructBrokerURL(<<"https:", "/", "/", "host">>, <<"p">>, <<"b">>))
    /\ urlRet.url = entry.Server
    /\ flags.Project = <<"p">>
    /\ flags.Broker = <<"b">>

-----------------------------------------------------------------------------
(* The polls of an asynchronous operation *)

\* the operation type of a create, update or delete call
OperationTypeOf(method) ==
    CASE method \in {"CreateInstance", "CreateBinding"} -> OperationCreate
      [] method = "UpdateInstance" -> OperationUpdate
      [] OTHER -> OperationDelete

\* waitOnOperation was entered and has not polled yet: call is still the
\* originating request
WaitEntered == pc = "waitOnOperation" /\ results = <<>>

\* the closure handed to waitOnOperation names the operation of the
\* originating request, with the OperationID of the broker's 202 answer
ClosureEchoesRequest ==
    /\ call.tr.code = StatusAccepted
    /\ poll.params.OperationID = FieldOf(call.tr.body, "operation")
    /\ poll.params.OperationID = call.out.res.OperationID
    /\ poll.params.InstanceID = call.params.InstanceID
    /\ poll.params.BindingID = call.params.BindingID
    /\ poll.params.ServiceID = call.params.ServiceID
    /\ poll.params.PlanID = call.params.PlanID
    /\ poll.params.OperationType = OperationTypeOf(call.method)
    /\ poll.resource = IF call.params.BindingID = "" THEN instanceKey ELSE bindingKey

\* the last-operation request just sent carries the closure's values
RequestCarries(key, value) ==
    IF value = "" THEN key \notin DOMAIN call.req.query
    ELSE key \in DOMAIN call.req.query /\ call.req.query[key] = value

PollEchoesClosure ==
    /\ call.params = poll.params
    /\ call.req.method = "GET"
    /\ call.req.url[4] = poll.params.InstanceID
    /\ poll.resource = bindingKey => call.req.url[6] = poll.params.BindingID
    /\ RequestCarries(operationKey, poll.params.OperationID)
    /\ RequestCarries(serviceIDKey, poll.params.ServiceID)
    /\ RequestCarries(planIDKey, poll.params.PlanID)

\* C14: when an asynchronous create, update or delete is polled, every
\* last-operation request carries the OperationID of the broker's 202 answer
\* and the instance, binding, service and plan IDs and the operation type of
\* the originating request, and the values are the same on every poll of the
\* run.
C14_PollsEchoOperation ==
    /\ [](/\ (WaitEntered /\ call.out.res.Async) => ClosureEchoesRequest
          /\ (pc \in {"waitOnOperation", "waitReturned"} /\ results # <<>>)
                => PollEchoesClosure)
    /\ [][pc = "waitOnOperation" => poll' = poll]_vars

C14_Witness ==
    /\ pc = "waitOnOperation"
    /\ caller = "cmd"
    /\ Len(results) >= 2
    /\ res.Async
    /\ poll.params.OperationID = "op-1"
    /\ poll.params.OperationType = OperationUpdate
    /\ call.method = "InstanceLastOperation"
    /\ call.req.query[operationKey] = "op-1"

\* C15: the poller is invoked for a create, update or delete only if the
\* result of that request has Async = true: after a synchronous result no
\* last_operation request is sent, in the commands and in cleanup's
\* deleteInstance and deleteBinding.
C15_PollOnlyIfAsync ==
    (pc \in {"waitOnOperation", "waitReturned"} /\ results # <<>>) => res.Async

-----------------------------------------------------------------------------
(* Errors of the adapter *)

AdminCalls == {"CreateBroker", "DeleteBroker", "ListBrokers", "ListInstances", "ListBindings"}
OSBCalls ==
    {"GetCatalog", "CreateInstance", "UpdateInstance", "DeleteInstance",
     "CreateBinding", "DeleteBinding", "InstanceLastOperation", "BindingLastOperation"}

\* the status codes the call made last treats as a success
SuccessCodes ==
    CASE call.method \in {"CreateInstance", "CreateBinding"} ->
            {StatusOK, StatusCreated, StatusAccepted}
      [] call.method = "UpdateInstance" -> {StatusOK, StatusAccepted}
      [] call.method \in {"DeleteInstance", "DeleteBinding"} ->
            {StatusOK, StatusGone, StatusAccepted}
      [] call.method \in {"InstanceLastOperation", "BindingLastOperation"} ->
            IF call.params.OperationType = OperationDelete
            THEN {StatusOK, StatusGone} ELSE {StatusOK}
      [] call.method = "GetCatalog" -> {StatusOK}
      [] OTHER -> {c \in AllCodes : c >= 200 /\ c < 300}

FailureAnswered == call.tr.kind = "resp" /\ call.tr.code \notin SuccessCodes

IsBrokerErrorOfAnswer ==
    /\ call.out.err.type = "BrokerError"
    /\ call.out.err.StatusCode = call.tr.code
    /\ call.out.err.ErrorBody = call.tr.body

\* C16 as claimed: for every adapter operation, the admin calls included, a
\* response whose status code is not a success code of the operation yields
\* a BrokerError with the status code and the raw body of the response.
C16_EveryCallBrokerError ==
    (call.method \in AdminCalls \cup OSBCalls /\ FailureAnswered)
        => IsBrokerErrorOfAnswer

\* C16 amended: that holds for the OSB calls; an admin call answered with a
\* status outside 200..299 yields a plain error "request was not successful"
\* quoting the raw body, not a BrokerError.
C16_FailureStatusErrors ==
    /\ (call.method \in OSBCalls /\ FailureAnswered) => IsBrokerErrorOfAnswer
    /\ (call.method \in AdminCalls /\ FailureAnswered)
          => call.out.err = Errorf("request was not successful", call.tr.body)

C16_Witness ==
    /\ call.method = "ListBindings"
    /\ idx = 2
    /\ call.tr = Response(500, GCPError)
    /\ call.out.err.type = "error"
    /\ pc = "fatal"

\* C17: handling a failure response never raises a secondary error: whether
\* the body is the error envelope, other JSON or no JSON at all, and whatever
\* the status code, validateGCPFailureResponse returns a BrokerError with that
\* status code and the raw body; a body it cannot decode only changes the
\* description.
C17_NoSecondaryError ==
    (call.method \in OSBCalls /\ FailureAnswered)
        => /\ call.out.res = Nil
           /\ call.out.err.type = "BrokerError"
           /\ call.out.err.StatusCode = call.tr.code
           /\ call.out.err.ErrorBody = call.tr.body
           /\ (call.out.err.ErrorDescription = "error unmarshalling failure response body")
                 <=> call.tr.body.syntax \in {"invalid", "array"}
                        \/ call.tr.body.error = BadType

C17_Witness ==
    /\ call.method = "GetCatalog"
    /\ call.tr = Response(StatusGone, NotJSON)
    /\ call.out.err = BrokerError(StatusGone, "error unmarshalling failure response body", NotJSON)

\* the description the claim names for a create call and a status code
ChosenDescription(method, code) ==
    CASE code = StatusBadRequest -> "request was malformed or missing mandatory data"
      [] code = StatusConflict ->
            IF method = "CreateInstance"
            THEN "instance with the same id but different attributes already exists"
            ELSE "binding with the same id but different attributes already exists"
      [] OTHER -> "the broker only supports asynchronous requests"

DescribedCodes == {StatusBadRequest, StatusConflict, StatusUnprocessableEntity}

CreateAnsweredDescribed ==
    /\ call.method \in {"CreateInstance", "CreateBinding"}
    /\ call.tr.kind = "resp"
    /\ call.tr.code \in DescribedCodes

DescriptionsDistinct ==
    \A m \in {"CreateInstance", "CreateBinding"} :
        \A c1 \in DescribedCodes, c2 \in DescribedCodes :
            c1 # c2 => ChosenDescription(m, c1) # ChosenDescription(m, c2)

\* C18 as claimed: CreateInstance and CreateBinding answer 400, 409 and 422
\* with a BrokerError whose ErrorDescription is the one chosen for the call
\* and the code, three pairwise distinct descriptions, for every body.
C18_DescriptionPerCode ==
    /\ DescriptionsDistinct
    /\ CreateAnsweredDescribed
          => /\ call.out.err.type = "BrokerError"
             /\ call.out.err.ErrorDescription = ChosenDescription(call.method, call.tr.code)

\* C18 amended: that holds for every body that decodes as the failure
\* envelope; for a body that does not, the BrokerError's description is
\* "error unmarshalling failure response body" for all three codes.
C18_DescriptionPerCodeIfDecoded ==
    /\ DescriptionsDistinct
    /\ CreateAnsweredDescribed
          => /\ call.out.err.type = "BrokerError"
             /\ call.out.err.StatusCode = call.tr.code
             /\ call.out.err.ErrorDescription =
                   IF UnmarshalOK(call.tr.body, {"error"})
                   THEN ChosenDescription(call.method, call.tr.code)
                   ELSE "error unmarshalling failure response body"

C18_Witness ==
    /\ call.method = "CreateBinding"
    /\ call.tr = Response(StatusConflict, GCPError)
    /\ call.out.err.ErrorDescription =
          "binding with the same id but different attributes already exists"
-----------------------------------------------------------------------------
(* Transport errors *)

\* C19: for every adapter method, when DoClient.Do returns an error the
\* method returns a non-nil error and Do was invoked exactly once for the
\* call (no retry); when the request cannot be constructed Do is not invoked
\* at all (and the method returns a non-nil error).
C19_TransportErrorOnce ==
    call.method \in AdminCalls \cup OSBCalls
        => /\ call.tr.kind = "doErr"
                => /\ call.out.err # NoErr
                   /\ Len(call.sent) = 1
                   /\ call.sent[1] = call.req
           /\ ~NewRequestOK(call.req)
                => /\ call.sent = <<>>
                   /\ call.tr = NotInvoked
                   /\ call.out.err = Errorf("error creating request", NilBody)

C19_Witness ==
    /\ call.method = "UpdateInstance"
    /\ call.tr = DoError
    /\ call.out.err = Errorf("error executing request", NilBody)
    /\ Len(call.sent) = 1
    /\ pc = "fatal"

C19_WitnessNotInvoked ==
    /\ call.method = "ListBrokers"
    /\ ~NewRequestOK(call.req)
    /\ call.sent = <<>>
    /\ pc = "fatal"
-----------------------------------------------------------------------------
(* Decode errors *)

\* the status codes on which the call made last decodes the response body
DecodedCodes ==
    CASE call.method \in {"CreateInstance", "CreateBinding"} ->
            {StatusOK, StatusCreated, StatusAccepted}
      [] call.method = "UpdateInstance" -> {StatusOK, StatusAccepted}
      [] call.method \in {"DeleteInstance", "DeleteBinding"} -> {StatusAccepted}
      [] call.method \in {"InstanceLastOperation", "BindingLastOperation", "GetCatalog"} ->
            {StatusOK}
      [] call.method \in AdminCalls \ {"DeleteBroker"} ->
            {c \in AllCodes : c >= 200 /\ c < 300}
      [] OTHER -> {}

\* the fields of the struct the call made last decodes into
TargetFields ==
    CASE call.method \in {"CreateInstance", "UpdateInstance"} -> {"dashboard_url", "operation"}
      [] call.method \in {"CreateBinding", "DeleteInstance", "DeleteBinding"} -> {"operation"}
      [] call.method \in {"InstanceLastOperation", "BindingLastOperation"} ->
            {"state", "description"}
      [] OTHER -> {}

UndecodableSuccess ==
    /\ call.method \in AdminCalls \cup OSBCalls
    /\ call.tr.kind = "resp"
    /\ call.tr.code \in DecodedCodes
    /\ ~UnmarshalOK(call.tr.body, TargetFields)

\* C20: when an operation receives a success status whose body it decodes
\* (GetCatalog 200, create 200/201/202, update 200/202, delete 202,
\* last-operation 200, admin calls with a decode target) and the body does
\* not decode, the operation returns a non-nil error that quotes the raw
\* body, never a success.
C20_DecodeErrorQuotesBody ==
    UndecodableSuccess
        => /\ call.out.err # NoErr
           /\ call.out.err.type = "error"
           /\ call.out.err.body = call.tr.body
           /\ pc \notin {"done", "waitOnOperation"}

C20_Witness ==
    /\ call.method = "ListInstances"
    /\ call.tr = Response(StatusOK, NotJSON)
    /\ call.out.err = Errorf("error unmarshalling response body into v", NotJSON)
    /\ pc = "fatal"

C20_WitnessAccepted ==
    /\ call.method = "DeleteBinding"
    /\ call.params.AcceptsIncomplete
    /\ call.tr = Response(StatusAccepted, OpBadType)
    /\ call.out.err = Errorf("error unmarshalling response body", OpBadType)
-----------------------------------------------------------------------------
(* Request headers *)

\* C21: every request issued by GetCatalog, CreateInstance, UpdateInstance,
\* DeleteInstance, CreateBinding, DeleteBinding, InstanceLastOperation and
\* BindingLastOperation carries the X-Broker-API-Version header, set to the
\* APIVersion of that call's parameters.
C21_APIVersionHeader ==
    call.method \in OSBCalls
        => /\ call.req.apiVersion = call.params.APIVersion
           /\ call.req.apiVersion # Absent
           /\ \A i \in 1..Len(call.sent) :
                 call.sent[i].apiVersion = call.params.APIVersion

C21_Witness ==
    /\ call.method = "BindingLastOperation"
    /\ call.params.APIVersion = "2.12"
    /\ Len(call.sent) = 1
    /\ call.sent[1].apiVersion = "2.12"
    /\ Len(results) = 2
-----------------------------------------------------------------------------
(* Concurrent use of one adapter *)

\* C22: the adapter keeps no mutable state across calls: in every
\* interleaving of the calls two callers make on one adapter, the request
\* the transport receives for a call is the one built from that call's
\* parameters, and the call's result is the one the method gives for these
\* parameters and the transport's answer to that request, as if the calls
\* had run one after another.
C22_CallsIndependent ==
    \A c \in Callers :
        /\ th[c].pc \in {"answered", "returned"}
              => th[c].sent = <<RequestOf(th[c].method, th[c].params)>>
        /\ th[c].pc = "returned"
              => th[c].out = ResultOf(th[c].method, th[c].params, th[c].tr)

C22_Witness ==
    /\ \A c \in Callers : th[c].pc = "returned" /\ th[c].overlap
    /\ th[1].method = "CreateInstance" /\ th[2].method = "ListBindings"
    /\ th[1].params.InstanceID # th[2].params.InstanceID
    /\ th[1].params.AcceptsIncomplete
    /\ th[1].tr = Response(StatusAccepted, OpObject)
    /\ th[2].tr = Response(StatusConflict, GCPError)
    /\ th[1].out.res.Async
    /\ th[2].out.err.type = "error"
-----------------------------------------------------------------------------
(* CreateBroker *)

\* the calls of CreateBroker among the callers' calls
CreateBrokerSent(c) == th[c].method = "CreateBroker" /\ th[c].sent # <<>>

\* C23: CreateBroker issues a POST whose JSON body decodes to a Broker with
\* Name = "projects/{Project}/brokers/{Name}", Title = params.Title and no
\* URL, and on a 2xx response whose body encodes a Broker it returns a Broker
\* equal to that one, field for field.
C23_CreateBrokerRoundTrip ==
    \A c \in Callers :
        CreateBrokerSent(c)
            => /\ th[c].sent[1].method = "POST"
               /\ UnmarshalBroker(th[c].sent[1].reqBody)
                     = Broker(<<"projects", th[c].params.Project, "brokers",
                                th[c].params.Name>>,
                              th[c].params.Title, NilPtr, NilPtr)
               /\ \A b \in {Broker(<<"projects", "p", "brokers", "b">>, t, u, ct) :
                               t \in {"", "t"},
                               u \in {NilPtr, "", "https://www.happifying.com"},
                               ct \in {NilPtr, "now"}} :
                     (/\ th[c].pc = "returned"
                      /\ th[c].tr.kind = "resp"
                      /\ th[c].tr.code \in {StatusOK, StatusCreated}
                      /\ th[c].tr.body = BrokerBody(MarshalBroker(b)))
                        => th[c].out = Out(b, NoErr)

C23_Witness ==
    /\ th[1].pc = "returned"
    /\ th[1].method = "CreateBroker"
    /\ th[1].params.Title = ""
    /\ "title" \notin DOMAIN th[1].sent[1].reqBody
    /\ th[1].tr.code = StatusCreated
    /\ th[1].out.err = NoErr
    /\ th[1].out.res = Broker(<<"projects", "p", "brokers", "b">>, "t",
                              "https://www.happifying.com", NilPtr)

-----------------------------------------------------------------------------
\* the successful calls of writeSecret for namespace/name, as indices of writes
SuccessfulWrites(namespace, name) ==
    {i \in 1..Len(writes) : /\ writes[i].ok
                            /\ writes[i].namespace = namespace
                            /\ writes[i].name = name}

\* C24: writeSecret is an upsert.  After any sequence of successful calls for
\* one namespace/name exactly one Secret of that namespace and name exists and
\* its Data["token"] is the token of the most recent call; a call that finds
\* no Secret creates it with the token alone (the first call of a sequence
\* that starts without the Secret), and every later call updates the Secret
\* in place: the same object, every other data key kept with its value.
C24_WriteSecretUpserts ==
    \A name \in {"a", "b"} :
        LET done == SuccessfulWrites("ns", name)
            last == CHOOSE i \in done : \A j \in done : j <= i
        IN  /\ done # {} =>
                /\ Cardinality(Named("ns", name)) = 1
                /\ \A s \in Named("ns", name) :
                       /\ ~s.DataNil
                       /\ tokenKey \in DOMAIN s.Data
                       /\ s.Data[tokenKey] = writes[last].token
            /\ \A i \in done :
                   LET wr == writes[i] IN
                   /\ Cardinality(wr.after) = 1
                   /\ (wr.verb = "create") = (wr.before = {})
                   /\ wr.verb \in {"create", "update"}
                   /\ wr.verb = "create" =>
                          /\ \A j \in done : j >= i
                          /\ \A s \in wr.after : DOMAIN s.Data = {tokenKey}
                   /\ (\E j \in done : j < i) => wr.verb = "update"
                   /\ wr.verb = "update" =>
                          \A old \in wr.before, new \in wr.after :
                              /\ new.Namespace = old.Namespace /\ new.Name = old.Name
                              /\ ~old.DataNil =>
                                     \A k \in DOMAIN old.Data \ {tokenKey} :
                                         /\ k \in DOMAIN new.Data
                                         /\ new.Data[k] = old.Data[k]
                              /\ DOMAIN new.Data =
                                     (IF old.DataNil THEN {} ELSE DOMAIN old.Data)
                                         \cup {tokenKey}

\* a call created the Secret, a later call with another token updated it, and
\* it is the one Secret of its name, holding the later token
C24_Witness ==
    /\ Len(writes) >= 2
    /\ \E i, j \in SuccessfulWrites("ns", "b") :
           /\ i < j
           /\ writes[i].verb = "create"
           /\ writes[j].verb = "update"
           /\ writes[j].token # writes[i].token
           /\ j = Len(writes)
           /\ Named("ns", "b") = writes[j].after

\* an update of a Secret that holds another data key kept that key
C24_WitnessOtherKeys ==
    \E i \in SuccessfulWrites("ns", "a") :
        /\ writes[i].verb = "update"
        /\ \E old \in writes[i].before, new \in writes[i].after :
               /\ ~old.DataNil
               /\ "key" \in DOMAIN old.Data
               /\ new.Data["key"] = "k0"
               /\ new.Data[tokenKey] = writes[i].token

-----------------------------------------------------------------------------
\* a command has come back from waitOnOperation and ended
CommandWaited ==
    /\ caller = "cmd"
    /\ pc \in {"done", "fatal"}
    /\ w.ret # NotReturned

\* the returns of cleanup's deleteBinding and deleteInstance that followed a
\* waitOnOperation which handed them a state other than succeeded
UnsuccessfulWaits ==
    {p \in DOMAIN log : /\ log[p].ev = "returned"
                        /\ log[p].State \notin {NoState, OperationSucceeded}}

\* C25: every caller of waitOnOperation looks at the state it returns and
\* treats a terminal state other than "succeeded" as a failure: the create,
\* update and delete commands of instances and bindings end in log.Fatalf and
\* report success only for "succeeded"; cleanup's deleteInstance and
\* deleteBinding return an error, which cleanupBroker records in errorMap under
\* the instance's ID.
C25_TerminalStateChecked ==
    /\ CommandWaited =>
           ((pc = "done") <=> (/\ w.ret.err = NoErr
                               /\ w.ret.res.State = OperationSucceeded))
    /\ \A p \in UnsuccessfulWaits :
           /\ ~log[p].ok
           /\ p > 1
           /\ IsRequest(log[p - 1])
           /\ log[p - 1].InstanceID \in DOMAIN errorMap

\* a command waited, the operation ended "failed", and the command ended in
\* log.Fatalf
C25_Witness ==
    /\ CommandWaited
    /\ w.ret.err = NoErr
    /\ w.ret.res.State = OperationFailed
    /\ pc = "fatal"

\* cleanup's deleteInstance got "failed" from waitOnOperation and returned an
\* error recorded under the instance
C25_WitnessCleanup ==
    \E p \in UnsuccessfulWaits :
        /\ log[p].State = OperationFailed
        /\ log[p - 1].ev = "DeleteInstance"
        /\ log[p - 1].InstanceID \in DOMAIN errorMap

-----------------------------------------------------------------------------
\* the closure has just answered
JustPolled == pc = "polled" /\ caller = "poller"

\* ... with an error or with a state other than "in progress"
EndingAnswer ==
    /\ call.method # "none"
    /\ \/ call.out.err # NoErr
       \/ call.out.res.State # OperationInProgress

PollerReturned == caller = "poller" /\ w.ret # NotReturned

\* C26: waitOnOperation has no deadline of its own.  It has returned only if
\* the latest poll gave an error or a state other than "in progress", and
\* what it returned is that poll's result; such a poll leads to its return;
\* and as long as every poll answers "in progress" it never returns and
\* polls again and again.
C26_NoDeadline ==
    /\ [](PollerReturned =>
              /\ EndingAnswer
              /\ w.ret = (IF call.out.err # NoErr THEN Out(Nil, call.out.err)
                          ELSE call.out))
    /\ [](pc = "waitOnOperation" /\ caller = "poller" /\ call.method # "none"
              => ~EndingAnswer)
    /\ ((JustPolled /\ EndingAnswer) ~> PollerReturned)
    /\ ([](JustPolled => ~EndingAnswer) => ([]~PollerReturned /\ []<>JustPolled))

\* the poller is about to poll again after more "in progress" answers than are
\* counted, at the largest delay
C26_Witness ==
    /\ pc = "waitOnOperation" /\ caller = "poller"
    /\ Len(sleeps) = MaxCounted
    /\ w.delay = maxDelay
    /\ ~EndingAnswer

\* the poller returned the "failed" Operation of its latest poll
C26_WitnessReturned ==
    /\ PollerReturned
    /\ w.ret.err = NoErr
    /\ w.ret.res.State = OperationFailed
    /\ Len(sleeps) = 3

-----------------------------------------------------------------------------
\* a run of cleanupBroker whose listing succeeded
Cleaning ==
    /\ cmd.name \in {"brokers cleanup", "brokers delete --cleanup"}
    /\ lir.err = NoErr

\* the DeleteBinding and DeleteInstance requests issued so far
Deletions == {p \in DOMAIN log : log[p].ev \in {"DeleteBinding", "DeleteInstance"}}

\* the answer as cleanupBroker reads it: the word Scanf takes from the line
Answer == Scanf(cmd.line)

C27_WitnessConfirmed ==
    /\ Cleaning /\ ~cmd.force /\ cmd.line = <<"Y">>
    /\ Deletions # {}

\* nothing listed: nil, nothing deleted
C27_WitnessEmpty ==
    /\ Cleaning /\ ~cmd.force /\ Len(lir.instances) = 0
    /\ pc = "done" /\ ret = NoErr /\ Deletions = {}

-----------------------------------------------------------------------------
\* brokers delete --cleanup has issued its DeleteBroker request
DeleteBrokerIssued ==
    /\ cmd.name = "brokers delete --cleanup"
    /\ call.method = "DeleteBroker"

\* C29: in brokers delete with --cleanup the DeleteBroker request is issued
\* only after cleanupBroker has returned nil.  If cleanupBroker returns an
\* error (an instance could not be cleaned up, the listing failed, or the user
\* did not confirm), the command ends without a DeleteBroker request.
C29_DeleteBrokerAfterCleanup ==
    cmd.name = "brokers delete --cleanup" =>
        /\ DeleteBrokerIssued => ret = NoErr
        /\ (ret # NotReturned /\ ret # NoErr) =>
               /\ call.method # "DeleteBroker"
               /\ pc \in {"done", "returned"}
        /\ pc = "returned" => (ret # NotReturned /\ ret # NoErr)
        /\ pc = "fatal" => DeleteBrokerIssued

\* cleanup failed for an instance: the command ended, the broker was kept
C29_Witness ==
    /\ cmd.name = "brokers delete --cleanup"
    /\ pc = "returned"
    /\ Deletions # {}
    /\ DOMAIN errorMap = {"i1"}
    /\ call.method # "DeleteBroker"

\* the user did not confirm: the broker was kept
C29_WitnessCancelled ==
    /\ cmd.name = "brokers delete --cleanup"
    /\ pc = "returned"
    /\ ret.text = userCancelledBrokerCleanup
    /\ call.method # "DeleteBroker"

\* cleanup returned nil and the broker was deleted
C29_WitnessDeleted ==
    /\ DeleteBrokerIssued
    /\ Deletions # {}
    /\ pc = "done"
    /\ call.sent # <<>>

-----------------------------------------------------------------------------
\* Server is Host + "/v1beta1/projects/" + P + "/brokers/" + B for non-empty
\* P and B without "/"
ExpectedShape(f) ==
    \E p \in SimpleNames, b \in SimpleNames :
        f.Server = ConstructBrokerURL(f.Host, p, b)

\* C28: in server mode BrokerURL succeeds only if Server has the expected
\* shape; for every other Server it returns an error and leaves Project and
\* Broker as they were.
C28_OnlyExpectedShape ==
    (urlRet.returned /\ ServerMode(entry)) =>
        /\ urlRet.err = NoErr => ExpectedShape(entry)
        /\ ~ExpectedShape(entry) =>
               /\ urlRet.err # NoErr
               /\ flags.Project = entry.Project
               /\ flags.Broker = entry.Broker

-----------------------------------------------------------------------------
\* C30: after a call of BrokerURL that returned a URL and a nil error, the
\* next call on the same constructor returns the same URL and a nil error.
C30_Idempotent ==
    (urlRet.returned /\ urlRet.first.returned /\ urlRet.first.err = NoErr) =>
        /\ urlRet.err = NoErr
        /\ urlRet.url = urlRet.first.url

====
